---------------------------- MODULE Spec2Model ----------------------------
(***************************************************************************)
(* A model of graphistry/plotter.py: the Plotter binding state, its        *)
(* chained configuration calls and the dataset pipeline behind plot().      *)
(*                                                                         *)
(* Python objects live in the model as follows.  A Plotter instance is a   *)
(* record of its attributes.  copy.copy(self) is a shallow copy, so the    *)
(* three dict-valued attributes (_url_params, _style, _complex_encodings)  *)
(* are held by reference: the record holds an index into urlObjs,          *)
(* styleObjs or encObjs and a shallow copy shares the index.  Scalars      *)
(* (column names, height, render, name) are values of one record shape so  *)
(* that None, '' and 0 are distinct values with Python's truthiness.       *)
(***************************************************************************)
EXTENDS Integers, Sequences, FiniteSets, TLC

VARIABLES insts, urlObjs, styleObjs, encObjs, made, last

vars == <<insts, urlObjs, styleObjs, encObjs, made, last>>

(***************************************************************************)
(* Bounds of the model.                                                    *)
(***************************************************************************)
\* Plotter instances a run creates besides the initial one.
MaxInst == 2

(***************************************************************************)
(* Python scalar values.                                                   *)
(***************************************************************************)
None == [t |-> "none", s |-> "", n |-> 0]
S(x) == [t |-> "str", s |-> x, n |-> 0]
I(x) == [t |-> "int", s |-> "", n |-> x]
PyTrue == [t |-> "bool", s |-> "", n |-> 1]
PyFalse == [t |-> "bool", s |-> "", n |-> 0]

\* bool(v): None, '', 0 and False are falsy.
Truthy(v) ==
    CASE v.t = "none" -> FALSE
      [] v.t = "str" -> v.s # ""
      [] v.t = "int" -> v.n # 0
      [] v.t = "bool" -> v.n = 1

\* The expression `a or b`.
OrElse(a, b) == IF Truthy(a) THEN a ELSE b

\* The expression `b if a is None else a`.
IfNone(a, b) == IF a = None THEN b ELSE a

(***************************************************************************)
(* Python dicts: functions from a finite set of keys.                      *)
(***************************************************************************)
EmptyDict == [k \in {} |-> None]

\* dict(a, **b): the keys of both, b's value where both have the key.
DictMerge(a, b) ==
    [k \in (DOMAIN a) \cup (DOMAIN b) |-> IF k \in DOMAIN b THEN b[k] ELSE a[k]]

\* d with d[k] = v executed on it.
DictSet(d, k, v) ==
    [j \in (DOMAIN d) \cup {k} |-> IF j = k THEN v ELSE d[j]]

(***************************************************************************)
(* The Plotter instance.                                                   *)
(***************************************************************************)
EdgeParams ==
    {"edge_title", "edge_label", "edge_color", "edge_source_color",
     "edge_destination_color", "edge_size", "edge_weight", "edge_icon",
     "edge_opacity"}

PointParams ==
    {"point_title", "point_label", "point_color", "point_size",
     "point_weight", "point_icon", "point_opacity", "point_x", "point_y"}

\* The keyword parameters of bind(), one attribute _<name> each.
BindParams == {"source", "destination", "node"} \cup EdgeParams \cup PointParams

defaultNodeId == S("__nodeid__")

\* The dict objects __init__ creates.
InitUrlParams == [k \in {"info"} |-> "true"]

EmptyLayers == [current |-> EmptyDict, default |-> EmptyDict]

InitComplexEncodings ==
    [node_encodings |-> EmptyLayers, edge_encodings |-> EmptyLayers]

\* Plotter.__init__: the attributes of a fresh instance.  url_params and
\* complex_encodings are references; style = 0 is the reference None.
NewPlotter(urlRef, encRef) ==
    [b |-> [p \in BindParams |-> None],
     edges |-> None,
     nodes |-> None,
     height |-> I(500),
     render |-> PyTrue,
     url_params |-> urlRef,
     name |-> None,
     description |-> None,
     style |-> 0,
     complex_encodings |-> encRef]

NoCall == [op |-> "init", recv |-> 0, res |-> 1, ok |-> TRUE, args |-> <<>>, err |-> ""]

Init ==
    /\ insts = <<NewPlotter(1, 1)>>
    /\ urlObjs = <<InitUrlParams>>
    /\ styleObjs = <<>>
    /\ encObjs = <<InitComplexEncodings>>
    /\ made = <<NoCall>>
    /\ last = NoCall

\* The receivers a call can be made on, while the run may create an instance.
Receivers == IF Len(insts) <= MaxInst THEN 1 .. Len(insts) ELSE {}

(***************************************************************************)
(* bind()                                                                  *)
(***************************************************************************)
\* A variant of BindField that assigns the argument as given: res._p = p.
BindFieldClearing(self, kw, p) == kw[p]

\* One line of bind: res._p = p or self._p.
BindField(self, kw, p) == OrElse(kw[p], self.b[p])

\* bind as a function: the shallow copy with every binding line applied.
BindResult(self, kw) ==
    [self EXCEPT !.b = [p \in BindParams |-> BindField(self, kw, p)]]

\* Keyword arguments with every parameter left at its default None.
KwNone == [p \in BindParams |-> None]

\* Keyword arguments with the one parameter p given.
Kw(p, v) == [KwNone EXCEPT ![p] = v]

\* The record of a call: the operation, the receiver, the index of the
\* returned instance (0 when the call raised) and the arguments.
Call(op, i, ok, args, err) ==
    [op |-> op, recv |-> i, res |-> IF ok THEN Len(insts) + 1 ELSE 0,
     ok |-> ok, args |-> args, err |-> err]

\* A configuration call that returns the new instance res.
Returns(op, i, args, res) ==
    /\ insts' = Append(insts, res)
    /\ last' = Call(op, i, TRUE, args, "")
    /\ made' = Append(made, Call(op, i, TRUE, args, ""))

\* A configuration call that raises: nothing is returned.
Raises(op, i, args, err) ==
    /\ last' = Call(op, i, FALSE, args, err)
    /\ UNCHANGED <<insts, made>>

Bind(i, kw) ==
    /\ Returns("bind", i, kw, BindResult(insts[i], kw))
    /\ UNCHANGED <<urlObjs, styleObjs, encObjs>>

(***************************************************************************)
(* nodes(), edges(), graph(), name(), description()                        *)
(***************************************************************************)
NodesResult(self, nodes, node) ==
    LET base == IF node # None THEN BindResult(self, Kw("node", node)) ELSE self
    IN  [base EXCEPT !.nodes = nodes]

Nodes(i, nodes, node) ==
    /\ Returns("nodes", i, [nodes |-> nodes, node |-> node],
               NodesResult(insts[i], nodes, node))
    /\ UNCHANGED <<urlObjs, styleObjs, encObjs>>

EdgesResult(self, edges, source, destination) ==
    LET base1 == IF source # None
                 THEN BindResult(self, Kw("source", source)) ELSE self
        base2 == IF destination # None
                 THEN BindResult(base1, Kw("destination", destination)) ELSE base1
    IN  [base2 EXCEPT !.edges = edges]

Edges(i, edges, source, destination) ==
    /\ Returns("edges", i,
               [edges |-> edges, source |-> source, destination |-> destination],
               EdgesResult(insts[i], edges, source, destination))
    /\ UNCHANGED <<urlObjs, styleObjs, encObjs>>

GraphResult(self, ig) == [self EXCEPT !.edges = ig, !.nodes = None]

Graph(i, ig) ==
    /\ Returns("graph", i, [ig |-> ig], GraphResult(insts[i], ig))
    /\ UNCHANGED <<urlObjs, styleObjs, encObjs>>

Name(i, name) ==
    /\ Returns("name", i, [name |-> name], [insts[i] EXCEPT !.name = name])
    /\ UNCHANGED <<urlObjs, styleObjs, encObjs>>

Description(i, description) ==
    /\ Returns("description", i, [description |-> description],
               [insts[i] EXCEPT !.description = description])
    /\ UNCHANGED <<urlObjs, styleObjs, encObjs>>

(***************************************************************************)
(* settings()                                                              *)
(***************************************************************************)
SettingsHeight(self, height) == OrElse(height, self.height)

SettingsRender(self, render) == IF render = None THEN self.render ELSE render

\* A variant of SettingsUrl in which the receiver's value of a key wins.
SettingsUrlKeepFirst(old, url_params) == DictMerge(url_params, old)

\* The dict settings() builds for res._url_params.
SettingsUrl(old, url_params) == DictMerge(old, url_params)

\* dict(...) is a new dict object; the receiver's dict, at ref, is only read.
SettingsStore(objs, ref, value) == Append(objs, value)

Settings(i, height, url_params, render) ==
    /\ urlObjs' = SettingsStore(urlObjs, insts[i].url_params,
                                SettingsUrl(urlObjs[insts[i].url_params], url_params))
    /\ Returns("settings", i,
               [height |-> height, url_params |-> url_params, render |-> render],
               [insts[i] EXCEPT !.height = SettingsHeight(insts[i], height),
                                !.url_params = Len(urlObjs) + 1,
                                !.render = SettingsRender(insts[i], render)])
    /\ UNCHANGED <<styleObjs, encObjs>>

(***************************************************************************)
(* Objects the caller passes in: dicts and lists beside the scalars.       *)
(***************************************************************************)
PyDictObj(d) == [t |-> "dict", d |-> d]
PyListObj(l) == [t |-> "list", d |-> l]

IsDict(v) == v.t = "dict"
IsList(v) == v.t = "list"
\* A variant of IsStr that takes an int for a string.
IsStrOrInt(v) == v.t \in {"str", "int"}

IsStr(v) == v.t = "str"

(***************************************************************************)
(* addStyle() and style()                                                  *)
(***************************************************************************)
StyleGroups == <<"fg", "bg", "page", "logo">>

\* copy.deepcopy(self._style or {}): the value of a fresh dict object.
StyleCopy(self) == IF self.style = 0 THEN EmptyDict ELSE styleObjs[self.style]

\* The body of addStyle's loop for the group k given as v, on the local
\* copy style.  style[k][k2] = v2 raises TypeError unless style[k] is a dict.

AddStyleGroup(style, k, v) ==
    LET cur == IF k \notin DOMAIN style \/ style[k] = None
               THEN PyDictObj(EmptyDict) ELSE style[k]
    IN  IF v = None THEN [ok |-> TRUE, style |-> style]
        ELSE IF ~IsDict(v) THEN [ok |-> TRUE, style |-> DictSet(style, k, v)]
        ELSE IF ~IsDict(cur) /\ DOMAIN v.d # {} THEN [ok |-> FALSE, style |-> style]
        ELSE IF ~IsDict(cur) THEN [ok |-> TRUE, style |-> style]
        ELSE [ok |-> TRUE, style |-> DictSet(style, k, PyDictObj(DictMerge(cur.d, v.d)))]

\* The loop of addStyle over o = {'fg': fg, 'bg': bg, 'page': page, 'logo': logo}.
RECURSIVE AddStyleLoop(_, _, _)
AddStyleLoop(style, o, n) ==
    IF n > Len(StyleGroups) THEN [ok |-> TRUE, style |-> style]
    ELSE LET r == AddStyleGroup(style, StyleGroups[n], o[StyleGroups[n]])
         IN  IF r.ok THEN AddStyleLoop(r.style, o, n + 1) ELSE r

\* style is a deep copy of the receiver's dict (at ref, 0 for None), changed
\* and then held by the result alone.
StyleStore(objs, ref, value) == Append(objs, value)

\* A call that ends in res = self.bind(); res._style = style.
StyleReturns(op, i, o, style) ==
    /\ styleObjs' = StyleStore(styleObjs, insts[i].style, style)
    /\ Returns(op, i, o,
               [BindResult(insts[i], KwNone) EXCEPT !.style = Len(styleObjs) + 1])
    /\ UNCHANGED <<urlObjs, encObjs>>

AddStyle(i, o) ==
    LET r == AddStyleLoop(StyleCopy(insts[i]), o, 1)
    IN  IF r.ok
        THEN StyleReturns("addStyle", i, o, r.style)
        ELSE /\ Raises("addStyle", i, o, "TypeError")
             /\ UNCHANGED <<urlObjs, styleObjs, encObjs>>

\* A variant of StyleGroup that merges a dict into the group it finds.
StyleGroupKeep(style, k, v) ==
    IF v = None THEN style
    ELSE IF IsDict(v) /\ k \in DOMAIN style /\ IsDict(style[k])
         THEN DictSet(style, k, PyDictObj(DictMerge(style[k].d, v.d)))
         ELSE DictSet(style, k, v)

\* The body of style()'s loop: a group given replaces the group of the copy.
StyleGroup(style, k, v) == IF v = None THEN style ELSE DictSet(style, k, v)

RECURSIVE StyleLoop(_, _, _)
StyleLoop(style, o, n) ==
    IF n > Len(StyleGroups) THEN style
    ELSE StyleLoop(StyleGroup(style, StyleGroups[n], o[StyleGroups[n]]), o, n + 1)

Style(i, o) == StyleReturns("style", i, o, StyleLoop(StyleCopy(insts[i]), o, 1))

(***************************************************************************)
(* __encode and the public encode_* methods                                *)
(***************************************************************************)
\* Badge positions callers pass to encode_*_badge.
Positions == {"TopRight", "Left"}

\* A variant of IsBadgeFeature that knows the badge at the top right alone.
IsBadgeFeatureTopRight(feature) == feature = "badgeTopRight"

\* feature.startswith('badge'), over the features the public methods pass.
IsBadgeFeature(feature) == \E pos \in Positions : feature = "badge" \o pos

\* The parameters of __encode with their defaults.
EncodeDefaults ==
    [graph_type |-> "point", feature |-> "", feature_binding |-> "",
     column |-> None, palette |-> None,
     as_categorical |-> None, as_continuous |-> None,
     categorical_mapping |-> None, default_mapping |-> None,
     for_default |-> PyTrue, for_current |-> PyFalse,
     as_text |-> None, blend_mode |-> None, style |-> None, border |-> None,
     continuous_binning |-> None, comparator |-> None,
     color |-> None, bg |-> None, fg |-> None, dimensions |-> None,
     shape |-> None]

\* A variant of Opt that never adds the key.
OptNever(k, v) == EmptyDict

\* {} if v is None else {k: v}
Opt(k, v) == IF v = None THEN EmptyDict ELSE [j \in {k} |-> v]

\* A variant of EncodeTransform that labels a binning categorical as well.
EncodeTransformOneLabel(a) ==
    IF a.categorical_mapping # None THEN
        IF ~IsDict(a.categorical_mapping)
        THEN [ok |-> FALSE, transform |-> EmptyDict]
        ELSE [ok |-> TRUE,
              transform |->
                [variation |-> S("categorical"),
                 mapping |->
                   [categorical |->
                      DictMerge([fixed |-> a.categorical_mapping],
                                Opt("other", a.default_mapping))]]]
    ELSE IF a.palette # None THEN
        IF ~IsList(a.palette)
           \/ \E n \in DOMAIN a.palette.d : ~IsStr(a.palette.d[n])
        THEN [ok |-> FALSE, transform |-> EmptyDict]
        ELSE IF a.as_categorical = None /\ a.as_continuous = None
        THEN [ok |-> FALSE, transform |-> EmptyDict]
        ELSE LET is_categorical ==
                     IF a.as_categorical # None THEN Truthy(a.as_categorical)
                     ELSE ~Truthy(a.as_continuous)
             IN  [ok |-> TRUE,
                  transform |->
                    [variation |-> IF is_categorical THEN S("categorical")
                                   ELSE S("continuous"),
                     colors |-> a.palette]]
    ELSE IF a.continuous_binning # None THEN
        IF ~IsList(a.continuous_binning)
        THEN [ok |-> FALSE, transform |-> EmptyDict]
        ELSE IF Truthy(a.as_categorical)
        THEN [ok |-> FALSE, transform |-> EmptyDict]
        ELSE IF a.as_continuous \in {PyFalse, I(0)}
        THEN [ok |-> FALSE, transform |-> EmptyDict]
        ELSE [ok |-> TRUE,
              transform |->
                [variation |-> S("categorical"),
                 mapping |->
                   [continuous |->
                      DictMerge(DictMerge([bins |-> a.continuous_binning],
                                          Opt("comparator", a.comparator)),
                                Opt("other", a.default_mapping))]]]
    ELSE IF IsBadgeFeature(a.feature)
    THEN [ok |-> TRUE, transform |-> [variation |-> S("categorical")]]
    ELSE [ok |-> FALSE, transform |-> EmptyDict]

\* The chain of branches that computes transform: either a dict or a raise.
EncodeTransform(a) ==
    IF a.categorical_mapping # None THEN
        IF ~IsDict(a.categorical_mapping)
        THEN [ok |-> FALSE, transform |-> EmptyDict]
        ELSE [ok |-> TRUE,
              transform |->
                [variation |-> S("categorical"),
                 mapping |->
                   [categorical |->
                      DictMerge([fixed |-> a.categorical_mapping],
                                Opt("other", a.default_mapping))]]]
    ELSE IF a.palette # None THEN
        IF ~IsList(a.palette)
           \/ \E n \in DOMAIN a.palette.d : ~IsStr(a.palette.d[n])
        THEN [ok |-> FALSE, transform |-> EmptyDict]
        ELSE IF a.as_categorical = None /\ a.as_continuous = None
        THEN [ok |-> FALSE, transform |-> EmptyDict]
        ELSE LET is_categorical ==
                     IF a.as_categorical # None THEN Truthy(a.as_categorical)
                     ELSE ~Truthy(a.as_continuous)
             IN  [ok |-> TRUE,
                  transform |->
                    [variation |-> IF is_categorical THEN S("categorical")
                                   ELSE S("continuous"),
                     colors |-> a.palette]]
    ELSE IF a.continuous_binning # None THEN
        IF ~IsList(a.continuous_binning)
        THEN [ok |-> FALSE, transform |-> EmptyDict]
        ELSE IF Truthy(a.as_categorical)
        THEN [ok |-> FALSE, transform |-> EmptyDict]
        ELSE IF a.as_continuous \in {PyFalse, I(0)}
        THEN [ok |-> FALSE, transform |-> EmptyDict]
        ELSE [ok |-> TRUE,
              transform |->
                [variation |-> S("continuous"),
                 mapping |->
                   [continuous |->
                      DictMerge(DictMerge([bins |-> a.continuous_binning],
                                          Opt("comparator", a.comparator)),
                                Opt("other", a.default_mapping))]]]
    ELSE IF IsBadgeFeature(a.feature)
    THEN [ok |-> TRUE, transform |-> [variation |-> S("categorical")]]
    ELSE [ok |-> FALSE, transform |-> EmptyDict]

\* The encoding dict: the three fixed keys, the transform, the decorations given.
EncodeEncoding(a, transform) ==
    LET fixed == [graphType |-> S(a.graph_type), encodingType |-> S(a.feature),
                  attribute |-> a.column]
        deco == <<Opt("bg", a.bg), Opt("color", a.color), Opt("fg", a.fg),
                  Opt("asText", a.as_text), Opt("blendMode", a.blend_mode),
                  Opt("style", a.style), Opt("border", a.border),
                  Opt("shape", a.shape)>>
        F[n \in 0 .. Len(deco)] ==
            IF n = 0 THEN DictMerge(fixed, transform) ELSE DictMerge(F[n - 1], deco[n])
    IN  F[Len(deco)]

\* 'node' if graph_type == 'point' else graph_type, then f'{...}_encodings'.
EncodingsGroup(graph_type) ==
    (IF graph_type = "point" THEN "node" ELSE graph_type) \o "_encodings"

\* A variant of EncodeLayerWrite that writes whatever the flag.
EncodeLayerWriteBoth(ce, a, layer, flag, encoding) ==
    [ce EXCEPT ![EncodingsGroup(a.graph_type)][layer] =
                   DictSet(@, a.feature_binding, encoding)]

\* One of the two guarded assignments into the deep copy.
EncodeLayerWrite(ce, a, layer, flag, encoding) ==
    IF Truthy(flag)
    THEN [ce EXCEPT ![EncodingsGroup(a.graph_type)][layer] =
                        DictSet(@, a.feature_binding, encoding)]
    ELSE ce

\* A variant of EncodeWrite in which an entry that is there stays.
EncodeWriteKeepFirst(ce, a, encoding) ==
    LET w == EncodeLayerWrite(EncodeLayerWrite(ce, a, "current", a.for_current, encoding),
                              a, "default", a.for_default, encoding)
    IN  [g \in DOMAIN ce |-> [l \in DOMAIN ce[g] |-> DictMerge(w[g][l], ce[g][l])]]

\* complex_encodings after both guarded assignments.
EncodeWrite(ce, a, encoding) ==
    EncodeLayerWrite(EncodeLayerWrite(ce, a, "current", a.for_current, encoding),
                     a, "default", a.for_default, encoding)

\* for_default / for_current given as None take their defaults.
EncodeFlags(a) ==
    [a EXCEPT !.for_default = IF @ = None THEN PyTrue ELSE @,
              !.for_current = IF @ = None THEN PyFalse ELSE @]

\* A variant of EncodeIsPlainBind in which a call for the current layer is
\* not handed to bind().
EncodeIsPlainBindDefaultOnly(a) ==
    /\ a.categorical_mapping = None
    /\ a.palette = None
    /\ a.continuous_binning = None
    /\ ~IsBadgeFeature(a.feature)
    /\ ~Truthy(a.for_current)

\* Whether __encode hands the call to bind().
EncodeIsPlainBind(a) ==
    /\ a.categorical_mapping = None
    /\ a.palette = None
    /\ a.continuous_binning = None
    /\ ~IsBadgeFeature(a.feature)

\* A variant of EncodeStore without the deep copy: the write lands in the
\* receiver's dict as well.
EncodeStoreNoCopy(objs, ref, value) == Append([objs EXCEPT ![ref] = value], value)

\* complex_encodings is a deep copy of the receiver's dict (at ref), written
\* and then held by the result alone.
EncodeStore(objs, ref, value) == Append(objs, value)

\* __encode on the receiver i with the arguments a0, called by method m.
EncodeCall(m, i, a0) ==
    LET a == EncodeFlags(a0)
        t == EncodeTransform(a)
    IN  IF a.graph_type \notin {"point", "edge"}
        THEN /\ Raises(m, i, a0, "ValueError")
             /\ UNCHANGED <<urlObjs, styleObjs, encObjs>>
        ELSE IF EncodeIsPlainBind(a)
        THEN /\ Returns(m, i, a0,
                        BindResult(insts[i], Kw(a.graph_type \o "_" \o a.feature, a.column)))
             /\ UNCHANGED <<urlObjs, styleObjs, encObjs>>
        ELSE IF ~t.ok
        THEN /\ Raises(m, i, a0, "ValueError")
             /\ UNCHANGED <<urlObjs, styleObjs, encObjs>>
        ELSE /\ encObjs' = EncodeStore(encObjs, insts[i].complex_encodings,
                   EncodeWrite(encObjs[insts[i].complex_encodings], a,
                               EncodeEncoding(a, t.transform)))
             /\ Returns(m, i, a0,
                        [insts[i] EXCEPT !.complex_encodings = Len(encObjs) + 1])
             /\ UNCHANGED <<urlObjs, styleObjs>>

\* The arguments the public methods hand to __encode; pa holds the public
\* method's own parameters (its defaults filled in).
EncodeColorArgs(graph_type, pa) ==
    [EncodeDefaults EXCEPT
        !.graph_type = graph_type, !.feature = "color",
        !.feature_binding = graph_type \o "ColorEncoding",
        !.column = pa.column, !.palette = pa.palette,
        !.as_categorical = pa.as_categorical, !.as_continuous = pa.as_continuous,
        !.categorical_mapping = pa.categorical_mapping,
        !.default_mapping = pa.default_mapping,
        !.for_default = pa.for_default, !.for_current = pa.for_current]

EncodeSizeArgs(pa) ==
    [EncodeDefaults EXCEPT
        !.graph_type = "point", !.feature = "size",
        !.feature_binding = "pointSizeEncoding",
        !.column = pa.column,
        !.categorical_mapping = pa.categorical_mapping,
        !.default_mapping = pa.default_mapping,
        !.for_default = pa.for_default, !.for_current = pa.for_current]

EncodeIconArgs(graph_type, pa) ==
    [EncodeDefaults EXCEPT
        !.graph_type = graph_type, !.feature = "icon",
        !.feature_binding = graph_type \o "IconEncoding",
        !.column = pa.column,
        !.categorical_mapping = pa.categorical_mapping,
        !.continuous_binning = pa.continuous_binning,
        !.default_mapping = pa.default_mapping,
        !.comparator = pa.comparator,
        !.for_default = pa.for_default, !.for_current = pa.for_current,
        !.as_text = pa.as_text, !.blend_mode = pa.blend_mode, !.style = pa.style,
        !.border = pa.border, !.shape = pa.shape]

EncodeBadgeArgs(graph_type, pa) ==
    [EncodeDefaults EXCEPT
        !.graph_type = graph_type, !.feature = "badge" \o pa.position,
        !.feature_binding = graph_type \o "Badge" \o pa.position \o "Encoding",
        !.column = pa.column,
        !.as_categorical = IF pa.categorical_mapping # None THEN PyTrue ELSE PyFalse,
        !.as_continuous = IF pa.continuous_binning # None THEN PyTrue ELSE PyFalse,
        !.categorical_mapping = pa.categorical_mapping,
        !.default_mapping = pa.default_mapping,
        !.for_current = pa.for_current, !.for_default = pa.for_default,
        !.as_text = pa.as_text, !.blend_mode = pa.blend_mode, !.style = pa.style,
        !.border = pa.border,
        !.continuous_binning = pa.continuous_binning,
        !.comparator = pa.comparator,
        !.color = pa.color, !.bg = pa.bg, !.fg = pa.fg, !.shape = pa.shape]

EncodeMethods ==
    {"encode_point_color", "encode_edge_color", "encode_point_size",
     "encode_point_icon", "encode_edge_icon",
     "encode_point_badge", "encode_edge_badge"}

\* The public method m called with the parameters pa.
EncodeArgs(m, pa) ==
    CASE m = "encode_point_color" -> EncodeColorArgs("point", pa)
      [] m = "encode_edge_color" -> EncodeColorArgs("edge", pa)
      [] m = "encode_point_size" -> EncodeSizeArgs(pa)
      [] m = "encode_point_icon" -> EncodeIconArgs("point", pa)
      [] m = "encode_edge_icon" -> EncodeIconArgs("edge", pa)
      [] m = "encode_point_badge" -> EncodeBadgeArgs("point", pa)
      [] m = "encode_edge_badge" -> EncodeBadgeArgs("edge", pa)

Encode(i, m, pa) == EncodeCall(m, i, EncodeArgs(m, pa))

(***************************************************************************)
(* The data callers hand over: tables and graph objects.                   *)
(***************************************************************************)
\* A pandas DataFrame: its column names and its rows, a cell per column.
\* A table is a block of rows and the number of times the block is
\* repeated, so that a table of millions of rows is a value of the model;
\* the tables made from literal rows hold the block once.
DataFrame(cols, rows) ==
    [t |-> "DataFrame", cols |-> cols, rows |-> rows, times |-> 1]

\* A pyarrow Table: columns and rows, without an index.
ArrowTable(cols, rows) ==
    [t |-> "Table", cols |-> cols, rows |-> rows, times |-> 1]

\* len(df.index), len(df)
RowCount(df) == Len(df.rows) * df.times

\* An igraph.Graph: the vertex attribute names with one row of values per
\* vertex, the edge attribute names, and per edge its tuple of vertex
\* indices (from 0) with one value per edge attribute.
IGraph(vattrs, vs, eattrs, es) ==
    [t |-> "igraph", vattrs |-> vattrs, vs |-> vs, eattrs |-> eattrs, es |-> es]

\* A networkx graph: nodes [id, attrs] and edges [u, v, attrs], attrs being
\* a dict in insertion order, a sequence of <<key, value>>.
NxGraph(nodes, edges) == [t |-> "networkx", nodes |-> nodes, edges |-> edges]

(***************************************************************************)
(* Lists, ordered dicts and the pandas operations the pipeline uses.  A    *)
(* table holds its rows by position; NaN and None are the one value None.  *)
(***************************************************************************)
\* list(f): the values of f over 1 .. n as a sequence, each computed once.
List(f) == f \o <<>>

\* x in l
Contains(l, x) == \E k \in DOMAIN l : l[k] = x

\* l.index(x)
IndexOf(l, x) ==
    CHOOSE k \in DOMAIN l : l[k] = x /\ \A j \in 1 .. (k - 1) : l[j] # x

\* The elements of s at the positions in keep, in their order.
Pick(s, keep) ==
    LET Kept(k) == k \in keep
        idx == SelectSeq([k \in 1 .. Len(s) |-> k], Kept)
    IN  List([j \in 1 .. Len(idx) |-> s[idx[j]]])

\* df[c], over one block of the table
Column(df, c) ==
    List([r \in 1 .. Len(df.rows) |-> df.rows[r][IndexOf(df.cols, c)]])

\* df[name] = values
SetColumn(df, name, values) ==
    IF Contains(df.cols, name)
    THEN [df EXCEPT !.rows =
             List([r \in 1 .. Len(df.rows) |->
                      [df.rows[r] EXCEPT ![IndexOf(df.cols, name)] = values[r]]])]
    ELSE [df EXCEPT !.cols = Append(df.cols, name),
                    !.rows = List([r \in 1 .. Len(df.rows) |->
                                      Append(df.rows[r], values[r])])]

\* df.drop(names, axis=1)
DropColumns(df, names) ==
    LET keep == {k \in DOMAIN df.cols : df.cols[k] \notin names}
    IN  [df EXCEPT !.cols = Pick(df.cols, keep),
                   !.rows = List([r \in 1 .. Len(df.rows) |->
                                     Pick(df.rows[r], keep)])]

\* df.dropna(subset=subset)
DropNa(df, subset) ==
    LET Present(row) ==
            \A k \in DOMAIN subset : row[IndexOf(df.cols, subset[k])] # None
    IN  [df EXCEPT !.rows = SelectSeq(df.rows, Present)]

\* A variant of Unique that keeps every occurrence.
UniqueKeepAll(s) == s

\* Series.unique() and Series.drop_duplicates(): first occurrences, in order.
Unique(s) == Pick(s, {k \in DOMAIN s : \A j \in 1 .. (k - 1) : s[j] # s[k]})

\* A variant of DropDuplicates that keeps the last row of every value.
DropDuplicatesKeepLast(df, c) ==
    [df EXCEPT !.rows =
        Pick(df.rows,
             {k \in DOMAIN df.rows :
                 \A j \in (k + 1) .. Len(df.rows) :
                    df.rows[j][IndexOf(df.cols, c)] # df.rows[k][IndexOf(df.cols, c)]}),
               !.times = 1]

\* df.drop_duplicates(subset=[c]): the first row of every value of c,
\* all of which are in the first block.
DropDuplicates(df, c) ==
    LET col == Column(df, c)
    IN  [df EXCEPT !.rows =
            Pick(df.rows,
                 {k \in DOMAIN col : \A j \in 1 .. (k - 1) : col[j] # col[k]}),
                   !.times = 1]

\* The strings pandas.to_numeric parses, with their numbers.
NumericStrings == ("0" :> 0) @@ ("1" :> 1) @@ ("2" :> 2) @@ ("3" :> 3)

\* A column of dtype object: one that holds a string.
IsObjectColumn(col) == \E r \in DOMAIN col : col[r].t = "str"

\* pandas.to_numeric(col, errors='ignore'): the numbers of the column when
\* every value is one or parses as one, the column as it is otherwise.
ToNumeric(col) ==
    IF \A r \in DOMAIN col :
           col[r].t \in {"int", "none"}
           \/ (col[r].t = "str" /\ col[r].s \in DOMAIN NumericStrings)
    THEN List([r \in DOMAIN col |->
                  IF col[r].t = "str" THEN I(NumericStrings[col[r].s]) ELSE col[r]])
    ELSE col

\* obj_df = df.select_dtypes(include=[object]);
\* df[obj_df.columns] = obj_df.apply(pandas.to_numeric, errors='ignore')
CoerceObjects(df) ==
    LET Col(k) == List([r \in 1 .. Len(df.rows) |-> df.rows[r][k]])
        New(k) == IF IsObjectColumn(Col(k)) THEN ToNumeric(Col(k)) ELSE Col(k)
        new == List([k \in 1 .. Len(df.cols) |-> New(k)])
    IN  [df EXCEPT !.rows =
            List([r \in 1 .. Len(df.rows) |->
                     List([k \in 1 .. Len(df.cols) |-> new[k][r]])])]

\* k in od, od[k] and od[k] = v on a dict in insertion order.
ODHas(od, k) == \E j \in DOMAIN od : od[j][1] = k
ODGet(od, k) == od[CHOOSE j \in DOMAIN od : od[j][1] = k][2]
ODSet(od, k, v) ==
    IF ODHas(od, k)
    THEN List([j \in DOMAIN od |-> IF od[j][1] = k THEN <<k, v>> ELSE od[j]])
    ELSE Append(od, <<k, v>>)

\* dict(a, **b)
RECURSIVE ODUpdate(_, _, _)
ODUpdate(a, b, n) ==
    IF n > Len(b) THEN a ELSE ODUpdate(ODSet(a, b[n][1], b[n][2]), b, n + 1)

\* The keys of a list of dicts in the order they are first seen.
RECURSIVE ODKeys(_, _)
ODKeys(dicts, n) ==
    IF n > Len(dicts) THEN <<>>
    ELSE List([j \in DOMAIN dicts[n] |-> dicts[n][j][1]]) \o ODKeys(dicts, n + 1)

\* pandas.DataFrame(dicts, columns=cols): a row per dict, None where a dict
\* lacks the column.
FrameOfDicts(dicts, cols) ==
    DataFrame(cols,
              List([r \in 1 .. Len(dicts) |->
                       List([k \in 1 .. Len(cols) |->
                                IF ODHas(dicts[r], cols[k])
                                THEN ODGet(dicts[r], cols[k]) ELSE None])]))

(***************************************************************************)
(* The outcome of a step of the pipeline: a failure with the exception, or *)
(* a success with what the step produced.                                   *)
(***************************************************************************)
Fail(err) == [ok |-> FALSE, err |-> err, warnings |-> {}]

\* The failure raised in the function named at.
FailAt(err, at) == Fail(err) @@ [at |-> at]

\* A variant of CheckMandatoryBindings that asks for one endpoint only.
CheckMandatoryBindingsEither(self, node_required) ==
    /\ ~(self.b["source"] = None /\ self.b["destination"] = None)
    /\ ~(node_required /\ self.b["node"] = None)

\* _check_mandatory_bindings: TRUE when it returns, FALSE when it raises.
CheckMandatoryBindings(self, node_required) ==
    /\ ~(self.b["source"] = None \/ self.b["destination"] = None)
    /\ ~(node_required /\ self.b["node"] = None)

\* _check_bound_attribs: TRUE when it returns, FALSE when it raises.
CheckBoundAttribs(self, df, attribs) ==
    \A a \in attribs : Contains(df.cols, self.b[a])

(***************************************************************************)
(* Graph objects to tables                                                 *)
(***************************************************************************)
\* ig.vs[name] = values
SetVertexAttribute(ig, name, values) ==
    IF Contains(ig.vattrs, name)
    THEN [ig EXCEPT !.vs =
             List([k \in 1 .. Len(ig.vs) |->
                      [ig.vs[k] EXCEPT ![IndexOf(ig.vattrs, name)] = values[k]]])]
    ELSE [ig EXCEPT !.vattrs = Append(ig.vattrs, name),
                    !.vs = List([k \in 1 .. Len(ig.vs) |->
                                    Append(ig.vs[k], values[k])])]

\* igraph2pandas: the tables, self._node and the graph object afterwards.
Igraph2Pandas(self, ig) ==
    IF ~CheckMandatoryBindings(self, FALSE)
    THEN FailAt("ValueError", "_check_mandatory_bindings")
    ELSE IF self.b["node"] # None /\ ~Contains(ig.vattrs, self.b["node"])
    THEN FailAt("ValueError", "igraph2pandas")
    ELSE
    LET unbound == self.b["node"] = None
        ig1 == IF unbound
               THEN SetVertexAttribute(ig, defaultNodeId,
                                       List([k \in 1 .. Len(ig.vs) |-> I(k - 1)]))
               ELSE ig
        node == IF unbound THEN defaultNodeId ELSE self.b["node"]
        names == Column(DataFrame(ig1.vattrs, ig1.vs), node)
        idmap == [k \in 0 .. (Len(ig1.vs) - 1) |-> names[k + 1]]
        Attributes(e) ==
            List([k \in 1 .. Len(ig1.eattrs) |-> <<ig1.eattrs[k], e.vals[k]>>])
        EdgeDict(e) ==
            ODUpdate(ODSet(ODSet(<<>>, self.b["source"], idmap[e.tuple[1]]),
                           self.b["destination"], idmap[e.tuple[2]]),
                     Attributes(e), 1)
        edata == List([k \in 1 .. Len(ig1.es) |-> EdgeDict(ig1.es[k])])
        cols == <<self.b["source"], self.b["destination"]>> \o ig1.eattrs
    IN  [ok |-> TRUE, node |-> node, graph |-> ig1,
         edges |-> FrameOfDicts(edata, cols),
         nodes |-> DataFrame(ig1.vattrs, ig1.vs)]

\* networkx_checkoverlap: TRUE when it returns, FALSE when it raises.  The
\* version of the installed networkx is a list of its numbers.
NetworkxCheckOverlap(self, g, version) ==
    /\ Len(version) = 2
    /\ LET node == self.b["node"]
           in_vattribs ==
               IF Len(g.nodes) = 0 THEN FALSE
               ELSE IF version[1] = 1 THEN ODHas(g.nodes[1].attrs, node)
               ELSE \E k \in DOMAIN g.nodes : g.nodes[k].id = node
       IN  ~(node # None /\ in_vattribs)

\* networkx2pandas: the tables and self._node afterwards.
Networkx2Pandas(self, g, version) ==
    IF ~CheckMandatoryBindings(self, FALSE)
    THEN FailAt("ValueError", "_check_mandatory_bindings")
    ELSE IF ~NetworkxCheckOverlap(self, g, version)
    THEN FailAt("ValueError", "networkx_checkoverlap")
    ELSE
    LET node == OrElse(self.b["node"], defaultNodeId)
        ndata == List([k \in 1 .. Len(g.nodes) |->
                          ODUpdate(<< <<node, g.nodes[k].id>> >>,
                                   g.nodes[k].attrs, 1)])
        edata == List([k \in 1 .. Len(g.edges) |->
                          ODUpdate(ODSet(ODSet(<<>>, self.b["source"], g.edges[k].u),
                                         self.b["destination"], g.edges[k].v),
                                   g.edges[k].attrs, 1)])
    IN  [ok |-> TRUE, node |-> node, graph |-> g,
         edges |-> FrameOfDicts(edata, Unique(ODKeys(edata, 1))),
         nodes |-> FrameOfDicts(ndata, Unique(ODKeys(ndata, 1)))]

(***************************************************************************)
(* _sanitize_dataset and _check_dataset_size                               *)
(***************************************************************************)
\* nodes = pandas.DataFrame(); nodes[nodeid] = pandas.concat([edges[source],
\* edges[destination]], ignore_index=True).drop_duplicates()
SynthesizedNodes(self, edges, nodeid) ==
    LET ids == Unique(Column(edges, self.b["source"])
                      \o Column(edges, self.b["destination"]))
    IN  DataFrame(<<nodeid>>, List([k \in 1 .. Len(ids) |-> <<ids[k]>>]))

SanitizeDataset(self, edges, nodes, nodeid) ==
    IF ~CheckBoundAttribs(self, edges, {"source", "destination"})
    THEN FailAt("ValueError", "_check_bound_attribs")
    ELSE IF nodes # None /\ ~CheckBoundAttribs(self, nodes, {"node"})
    THEN FailAt("ValueError", "_check_bound_attribs")
    ELSE
    LET elist == CoerceObjects(
                     DropNa(edges, <<self.b["source"], self.b["destination"]>>))
        nodes1 == IF nodes = None THEN SynthesizedNodes(self, edges, nodeid)
                  ELSE nodes
    IN  IF ~Contains(nodes1.cols, nodeid) THEN FailAt("KeyError", "_sanitize_dataset")
        ELSE [ok |-> TRUE, elist |-> elist,
              nlist |-> CoerceObjects(
                            DropDuplicates(DropNa(nodes1, <<nodeid>>), nodeid))]

MaxEdgeCount == 8000000
MaxNodeCount == 8000000
LargeGraphSize == 1000000

\* _check_dataset_size: whether it returns, and the warning it gives.
CheckDatasetSize(elist, nlist) ==
    LET edge_count == RowCount(elist)
        node_count == RowCount(nlist)
    IN  [ok |-> ~(edge_count > MaxEdgeCount) /\ ~(node_count > MaxNodeCount),
         warnings |-> IF edge_count + node_count > LargeGraphSize
                      THEN {"Large graph"} ELSE {}]

(***************************************************************************)
(* _bind_attributes_v1 and _bind_attributes_v2                             *)
(***************************************************************************)
\* The calls of bind() inside _bind_attributes_*: wire name and attribute.
EdgeWire ==
    << <<"edgeColor", "edge_color">>, <<"edgeSourceColor", "edge_source_color">>,
       <<"edgeDestinationColor", "edge_destination_color">>,
       <<"edgeLabel", "edge_label">>, <<"edgeTitle", "edge_title">>,
       <<"edgeSize", "edge_size">>, <<"edgeWeight", "edge_weight">>,
       <<"edgeOpacity", "edge_opacity">>, <<"edgeIcon", "edge_icon">> >>

PointWire ==
    << <<"pointColor", "point_color">>, <<"pointLabel", "point_label">>,
       <<"pointTitle", "point_title">>, <<"pointSize", "point_size">>,
       <<"pointWeight", "point_weight">>, <<"pointOpacity", "point_opacity">>,
       <<"pointIcon", "point_icon">>, <<"pointX", "point_x">>,
       <<"pointY", "point_y">> >>

\* A variant of WireDefault with no default for any feature.
WireDefaultNone(pbname, nodeid) == None

\* The default argument of a bind() call: nodeid for pointTitle.
WireDefault(pbname, nodeid) == IF pbname = "pointTitle" THEN nodeid ELSE None

\* A variant of BindColumn that stores the name of the bound column.
BindColumnName(acc, pbname, bound, default) ==
    IF Truthy(bound)
    THEN IF Contains(acc.df.cols, bound)
         THEN [acc EXCEPT !.df = SetColumn(@, S(pbname),
                                           [r \in DOMAIN acc.df.rows |-> bound])]
         ELSE [acc EXCEPT !.warnings = @ \cup {"Attribute does not exist"}]
    ELSE IF Truthy(default)
         THEN [acc EXCEPT !.df = SetColumn(@, S(pbname), Column(acc.df, default))]
         ELSE acc

\* The inner bind() of _bind_attributes_v1 on the table and warnings in acc.
BindColumn(acc, pbname, bound, default) ==
    IF Truthy(bound)
    THEN IF Contains(acc.df.cols, bound)
         THEN [acc EXCEPT !.df = SetColumn(@, S(pbname), Column(acc.df, bound))]
         ELSE [acc EXCEPT !.warnings = @ \cup {"Attribute does not exist"}]
    ELSE IF Truthy(default)
         THEN [acc EXCEPT !.df = SetColumn(@, S(pbname), Column(acc.df, default))]
         ELSE acc

RECURSIVE BindColumns(_, _, _, _, _)
BindColumns(acc, self, wires, nodeid, n) ==
    IF n > Len(wires) THEN acc
    ELSE BindColumns(BindColumn(acc, wires[n][1], self.b[wires[n][2]],
                                WireDefault(wires[n][1], nodeid)),
                     self, wires, nodeid, n + 1)

\* _bind_attributes_v1 from the outcome s of _sanitize_dataset on.
BoundColumns(self, s, nodeid) ==
    IF ~s.ok THEN s
    ELSE LET size == CheckDatasetSize(s.elist, s.nlist)
             e == BindColumns([df |-> s.elist, warnings |-> {}],
                              self, EdgeWire, nodeid, 1)
             p == BindColumns([df |-> s.nlist, warnings |-> {}],
                              self, PointWire, nodeid, 1)
         IN  IF ~size.ok THEN FailAt("ValueError", "_check_dataset_size")
             ELSE [ok |-> TRUE, elist |-> e.df, nlist |-> p.df,
                   warnings |-> size.warnings \cup e.warnings \cup p.warnings]

BindAttributesV1(self, edges, nodes) ==
    BoundColumns(self,
                 SanitizeDataset(self, edges, nodes,
                                 OrElse(self.b["node"], defaultNodeId)),
                 OrElse(self.b["node"], defaultNodeId))

\* A variant of BindEncoding that emits the entry of a column the table
\* lacks as well.
BindEncodingUnchecked(acc, df, pbname, bound, default) ==
    IF Truthy(bound)
    THEN IF Contains(df.cols, bound)
         THEN [acc EXCEPT !.enc = DictSet(@, pbname, [attributes |-> <<bound>>])]
         ELSE [acc EXCEPT !.enc = DictSet(@, pbname, [attributes |-> <<bound>>]),
                          !.warnings = @ \cup {"Attribute does not exist"}]
    ELSE IF Truthy(default)
         THEN [acc EXCEPT !.enc = DictSet(@, pbname, [attributes |-> <<default>>])]
         ELSE acc

\* The inner bind() of _bind_attributes_v2 on the encodings and warnings.
BindEncoding(acc, df, pbname, bound, default) ==
    IF Truthy(bound)
    THEN IF Contains(df.cols, bound)
         THEN [acc EXCEPT !.enc = DictSet(@, pbname, [attributes |-> <<bound>>])]
         ELSE [acc EXCEPT !.warnings = @ \cup {"Attribute does not exist"}]
    ELSE IF Truthy(default)
         THEN [acc EXCEPT !.enc = DictSet(@, pbname, [attributes |-> <<default>>])]
         ELSE acc

RECURSIVE BindEncodings(_, _, _, _, _, _)
BindEncodings(acc, df, self, wires, nodeid, n) ==
    IF n > Len(wires) THEN acc
    ELSE BindEncodings(BindEncoding(acc, df, wires[n][1], self.b[wires[n][2]],
                                    WireDefault(wires[n][1], nodeid)),
                       df, self, wires, nodeid, n + 1)

\* _bind_attributes_v2 from the outcome s of _sanitize_dataset on.
BoundEncodings(self, s, nodeid) ==
    IF ~s.ok THEN s
    ELSE LET size == CheckDatasetSize(s.elist, s.nlist)
             edge_encodings ==
                 [source |-> [attributes |-> <<self.b["source"]>>],
                  destination |-> [attributes |-> <<self.b["destination"]>>]]
             node_encodings == [nodeId |-> [attributes |-> <<nodeid>>]]
             e == BindEncodings([enc |-> edge_encodings, warnings |-> {}],
                                s.elist, self, EdgeWire, nodeid, 1)
             p == BindEncodings([enc |-> node_encodings, warnings |-> {}],
                                s.nlist, self, PointWire, nodeid, 1)
         IN  IF ~size.ok THEN FailAt("ValueError", "_check_dataset_size")
             ELSE [ok |-> TRUE, elist |-> s.elist, nlist |-> s.nlist,
                   encodings |-> [nodes |-> p.enc, edges |-> e.enc],
                   warnings |-> size.warnings \cup e.warnings \cup p.warnings]

BindAttributesV2(self, edges, nodes) ==
    BoundEncodings(self,
                   SanitizeDataset(self, edges, nodes,
                                   OrElse(self.b["node"], defaultNodeId)),
                   OrElse(self.b["node"], defaultNodeId))

(***************************************************************************)
(* The three serializers                                                   *)
(***************************************************************************)
\* The values of the PyGraphistry configuration the payloads carry.
dataset_prefix == "PyGraphistry/"
ArrowIdentity ==
    [usertag |-> S("tag"), key |-> S("key"), agent |-> S("pygraphistry"),
     apiversion |-> S("3"), agentversion |-> S("version")]

\* _table_to_pandas and _table_to_arrow on a table they convert.
TableToPandas(table) == IF table = None THEN None ELSE [table EXCEPT !.t = "DataFrame"]
TableToArrow(table) == IF table = None THEN None ELSE [table EXCEPT !.t = "Table"]

\* Whether _table_to_pandas and _table_to_arrow convert the value.
IsTabular(table) == table.t \in {"none", "DataFrame", "Table"}

\* df.where(pandas.notnull(df), None).to_dict(orient='records')
Records(df) ==
    List([r \in 1 .. Len(df.rows) |->
             [c \in {df.cols[k] : k \in DOMAIN df.cols} |->
                 df.rows[r][IndexOf(df.cols, c)]]])

\* _make_json_dataset from the outcome r of _bind_attributes_v1 on.  graph
\* holds the records of one block of the edge table, graph_times the number
\* of blocks; the node table holds an identifier once, so labels is whole.
JsonDataset(self, r, name) ==
    IF ~r.ok THEN r
    ELSE [ok |-> TRUE, warnings |-> r.warnings,
          dataset |->
              [name |-> S(dataset_prefix \o name.s),
               bindings |->
                   [idField |-> OrElse(self.b["node"], defaultNodeId),
                    destinationField |-> self.b["destination"],
                    sourceField |-> self.b["source"]],
               type |-> "edgelist",
               graph |-> Records(r.elist), graph_times |-> r.elist.times,
               labels |-> Records(r.nlist)]]

MakeJsonDataset(self, edges, nodes, name) ==
    JsonDataset(self, BindAttributesV1(self, edges, nodes), name)

\* pandas.merge(lnodes_df, nlist, on=nodeid, how='left'): per identifier of
\* lnodes the rows of nlist with it, or one row of nulls when there is none.
RECURSIVE LeftMergeRows(_, _, _, _)
LeftMergeRows(lnodes, nlist, nodeid, n) ==
    IF n > Len(lnodes) THEN <<>>
    ELSE LET ci == IndexOf(nlist.cols, nodeid)
             Matches(row) == row[ci] = lnodes[n]
             found == SelectSeq(nlist.rows, Matches)
             Attrs(row) == Pick(row, (DOMAIN row) \ {ci})
             rows == IF Len(found) = 0
                     THEN << <<lnodes[n]>>
                             \o [k \in 1 .. (Len(nlist.cols) - 1) |-> None] >>
                     ELSE [m \in 1 .. Len(found) |->
                              <<lnodes[n]>> \o Attrs(found[m])]
         IN  rows \o LeftMergeRows(lnodes, nlist, nodeid, n + 1)

LeftMerge(lnodes, nlist, nodeid) ==
    DataFrame(<<nodeid>> \o Pick(nlist.cols,
                                 (DOMAIN nlist.cols) \ {IndexOf(nlist.cols, nodeid)}),
              LeftMergeRows(lnodes, nlist, nodeid, 1))

\* A variant of NodeMap that numbers the identifiers from the end.
NodeMapReversed(lnodes) ==
    [v \in {lnodes[k] : k \in DOMAIN lnodes} |->
        Len(lnodes) - (CHOOSE k \in DOMAIN lnodes : lnodes[k] = v)]

\* dict([(v, i) for i, v in enumerate(lnodes.tolist())]): the last position
\* of a value is the one the dict keeps.
NodeMap(lnodes) ==
    [v \in {lnodes[k] : k \in DOMAIN lnodes} |->
        (CHOOSE k \in DOMAIN lnodes :
            lnodes[k] = v /\ \A j \in (k + 1) .. Len(lnodes) : lnodes[j] # v) - 1]

\* _make_vgraph_dataset from the outcome r of _bind_attributes_v2 on: the
\* arguments of vgraph.create and the encodings.  sources and dests are the
\* columns of one block of the edge table, times the number of blocks.
VgraphDataset(self, r, name) ==
    IF ~r.ok THEN r
    ELSE
    LET nodeid == OrElse(self.b["node"], defaultNodeId)
        sources == Column(r.elist, self.b["source"])
        dests == Column(r.elist, self.b["destination"])
        elist == DropColumns(r.elist, {self.b["source"], self.b["destination"]})
        lnodes == Unique(sources \o dests)
    IN  [ok |-> TRUE, warnings |-> r.warnings,
         dataset |->
             [type |-> "vgraph", name |-> name, edges |-> elist,
              nodes |-> LeftMerge(lnodes, r.nlist, nodeid),
              sources |-> sources, dests |-> dests, times |-> r.elist.times,
              nodeid |-> nodeid,
              node_map |-> NodeMap(lnodes),
              encodings |-> r.encodings]]

MakeVgraphDataset(self, edges, nodes, name) ==
    VgraphDataset(self, BindAttributesV2(self, edges, nodes), name)

\* _make_arrow_dataset: the ArrowUploader with the tables, the metadata and
\* the bindings and complex encodings of the Plotter it reads its encodings
\* from.
MakeArrowDataset(self, style, ce, edges, nodes, name, description) ==
    [ok |-> TRUE, warnings |-> {},
     dataset |->
         [type |-> "arrow", edges |-> edges, nodes |-> nodes, name |-> name,
          description |-> description,
          metadata |-> DictMerge(ArrowIdentity, IF style = None THEN EmptyDict ELSE style),
          edge_encodings |-> [bindings |-> [p \in EdgeParams \cup {"source", "destination"} |-> self.b[p]],
                              complex_encodings |-> ce["edge_encodings"]],
          node_encodings |-> [bindings |-> [p \in PointParams \cup {"node"} |-> self.b[p]],
                              complex_encodings |-> ce["node_encodings"]]]]

\* A variant of StyleIsSet that looks for the group bg only.
StyleIsSetBg(style) == style # None /\ "bg" \in DOMAIN style

\* The compatibility checks of _make_dataset for the modes json and vgraph.
StyleIsSet(style) ==
    style # None /\ (DOMAIN style) \cap {"bg", "fg", "logo", "page"} # {}

\* _make_dataset, with style and ce the dicts self._style and
\* self._complex_encodings refer to.
\* The warning _make_dataset opens with, on the outcome r of the rest.
WarnNoEdges(edges, r) ==
    IF RowCount(edges) = 0
    THEN [r EXCEPT !.warnings = @ \cup {"Graph has no edges"}]
    ELSE r

MakeDataset(self, style, ce, edges, nodes, name, description, mode) ==
    WarnNoEdges(edges,
        IF mode \in {"json", "vgraph"}
           /\ (StyleIsSet(style) \/ ce # InitComplexEncodings)
        THEN FailAt("ValueError", "_make_dataset")
        ELSE IF mode \notin {"json", "vgraph", "arrow"}
        THEN FailAt("ValueError", "_make_dataset")
        ELSE IF ~IsTabular(nodes)
        THEN FailAt("Exception", IF mode = "arrow" THEN "_table_to_arrow"
                                 ELSE "_table_to_pandas")
        ELSE IF mode = "json"
        THEN MakeJsonDataset(self, TableToPandas(edges), TableToPandas(nodes), name)
        ELSE IF mode = "vgraph"
        THEN MakeVgraphDataset(self, TableToPandas(edges), TableToPandas(nodes), name)
        ELSE MakeArrowDataset(self, style, ce, TableToArrow(edges),
                              TableToArrow(nodes), name, description))

(***************************************************************************)
(* _plot_dispatch and plot()                                               *)
(***************************************************************************)
\* _plot_dispatch: the outcome of _make_dataset, with self._node and the
\* graph object as the call leaves them.
PlotDispatchTables(self, graph, nodes, env) ==
    IF graph.t \in {"DataFrame", "Table"}
    THEN [ok |-> TRUE, node |-> self.b["node"], graph |-> graph,
          edges |-> graph, nodes |-> nodes]
    ELSE IF graph.t = "igraph" THEN Igraph2Pandas(self, graph)
    ELSE IF graph.t = "networkx" THEN Networkx2Pandas(self, graph, env.nx_version)
    ELSE FailAt("ValueError", "_plot_dispatch")

PlotDispatchMade(self, style, ce, graph, c, name, description, mode) ==
    IF c.ok
    THEN MakeDataset([self EXCEPT !.b["node"] = c.node], style, ce, c.edges,
                     c.nodes, name, description, mode)
         @@ [node |-> c.node, graph |-> c.graph]
    ELSE c @@ [node |-> self.b["node"], graph |-> graph]

PlotDispatch(self, style, ce, graph, nodes, name, description, mode, env) ==
    PlotDispatchMade(self, style, ce, graph,
                     PlotDispatchTables(self, graph, nodes, env),
                     name, description, mode)

\* The mode plot() passes for the API version of the session.
ApiMode(api_version) ==
    CASE api_version = 1 -> "json" [] api_version = 2 -> "vgraph"
      [] api_version = 3 -> "arrow"
      [] OTHER -> "none"

\* What plot() returns after the upload: the URL, or the HTML of an iframe
\* of self._height around it.
PlotUploaded(self, url_params, dataset, render, env) ==
    IF render = PyFalse \/ (render = None /\ ~Truthy(self.render))
    THEN [t |-> "url", uploaded |-> dataset, url_params |-> url_params]
    ELSE IF render = PyTrue \/ env.in_ipython
    THEN [t |-> "HTML", uploaded |-> dataset, url_params |-> url_params,
          height |-> self.height]
    ELSE [t |-> "url", uploaded |-> dataset, url_params |-> url_params]

\* The calls plot() makes to PyGraphistry and to the uploader that reach
\* the server, in their order: refresh() ahead of _plot_dispatch with API
\* version 3, and after a dispatch that returned, unless skip_upload, the
\* upload of the version.
PlotCalls(a, env, d) ==
    (IF env.api_version = 3 THEN <<"refresh">> ELSE <<>>)
    \o (IF ~d.ok \/ a.skip_upload THEN <<>>
        ELSE CASE env.api_version = 1 -> <<"_etl1">>
               [] env.api_version = 2 -> <<"_etl2">>
               [] env.api_version = 3 -> <<"api_token", "post">>)

\* The end of plot(), d being the outcome of _plot_dispatch.
PlotReturn(self, url_params, a, env, d) ==
    [calls |-> PlotCalls(a, env, d)]
    @@ (IF ~d.ok THEN d
        ELSE IF a.skip_upload THEN d
        ELSE [d EXCEPT !.dataset =
                 PlotUploaded(self, url_params, d.dataset, a.render, env)])

\* plot() as a function of the receiver, the dicts it refers to, the
\* arguments a and the session env.  With an API version that is none of
\* 1, 2 and 3 no branch assigns info, and reading it raises.
PlotResult(self, style, ce, url_params, a, env) ==
    IF a.graph = None /\ self.edges = None
    THEN FailAt("ValueError", "plot")
         @@ [node |-> self.b["node"], graph |-> a.graph, calls |-> <<>>]
    ELSE
    LET g == IF a.graph = None THEN self.edges ELSE a.graph
        n == IF a.nodes = None THEN self.nodes ELSE a.nodes
        name == OrElse(a.name,
                       OrElse(self.name, S("Untitled " \o env.random_string)))
        description == OrElse(a.description, OrElse(self.description, S("")))
    IN  IF ~CheckMandatoryBindings(self, n # None)
        THEN FailAt("ValueError", "_check_mandatory_bindings")
             @@ [node |-> self.b["node"], graph |-> g, calls |-> <<>>]
        ELSE IF env.api_version \notin {1, 2, 3}
        THEN FailAt("UnboundLocalError", "plot")
             @@ [node |-> self.b["node"], graph |-> g, calls |-> <<>>]
        ELSE PlotReturn(self, url_params, a, env,
                        PlotDispatch(self, style, ce, g, n, name, description,
                                     ApiMode(env.api_version), env))

\* plot(): the outcome is recorded in last.  self._node is assigned on the
\* receiver itself, and a graph object the receiver holds as _edges is the
\* object the call works on.  The record keeps the session of the call,
\* the receiver as the call found it, and whether the call is the first
\* one on the receiver: the call before it was the one that made it.
PlotDone(i, a, env, r) ==
    /\ insts' = [insts EXCEPT ![i].b["node"] = r.node,
                              ![i].edges = IF a.graph = None THEN r.graph ELSE @]
    /\ last' = [op |-> "plot", recv |-> i, res |-> 0, ok |-> r.ok,
                args |-> a, err |-> IF r.ok THEN "" ELSE r.err,
                mode |-> ApiMode(env.api_version), out |-> r,
                env |-> env, before |-> insts[i],
                first |-> last.op # "plot" /\ last.ok /\ last.res = i]
    /\ UNCHANGED <<urlObjs, styleObjs, encObjs, made>>

Plot(i, a, env) ==
    PlotDone(i, a, env,
             PlotResult(insts[i],
                        IF insts[i].style = 0 THEN None
                        ELSE styleObjs[insts[i].style],
                        encObjs[insts[i].complex_encodings],
                        urlObjs[insts[i].url_params], a, env))

(***************************************************************************)
(* The calls of a run: the arguments the callers pass.                     *)
(***************************************************************************)
\* Column names callers pass: strings, the empty string, integer names.
ColVals == {S("a"), S("b"), S(""), I(0)}

BindKw == {KwNone} \cup {Kw(p, v) : p \in BindParams, v \in ColVals}

\* One call per parameter, for the runs that mix every operation.
BindKwEach == {KwNone} \cup {Kw(p, S("a")) : p \in BindParams}

EdgeTable1 == DataFrame(<<S("a"), S("b")>>, << <<I(1), I(2)>> >>)
NodeTable1 == DataFrame(<<S("a")>>, << <<I(1)>>, <<I(2)>> >>)

HeightVals == {None, I(0), I(600)}
RenderVals == {None, PyTrue, PyFalse}

UrlParamVals ==
    {EmptyDict, [play |-> "0"], [play |-> "1"], [info |-> "false"],
     [play |-> "0", info |-> "false"]}

\* Style groups as the docstrings give them, and a non-dict value.
BgColor == PyDictObj([color |-> S("black")])
BgImageUrl == PyDictObj([image |-> PyDictObj([url |-> S("u")])])
BgImageWidth == PyDictObj([image |-> PyDictObj([width |-> I(9)])])
BgColorImage ==
    PyDictObj([color |-> S("black"), image |-> PyDictObj([url |-> S("u")])])
FgBlend == PyDictObj([blendMode |-> S("screen")])
StyleVals == {BgColor, BgImageUrl, BgImageWidth, BgColorImage, S("x")}

StyleNone == [g \in {"fg", "bg", "page", "logo"} |-> None]

\* Calls that give one group, none, or bg and fg together.
StyleArgs ==
    {StyleNone, [StyleNone EXCEPT !["bg"] = BgColor, !["fg"] = FgBlend]}
    \cup {[StyleNone EXCEPT !["bg"] = v] : v \in StyleVals}
    \cup {[StyleNone EXCEPT ![g] = v] : g \in {"fg", "page", "logo"},
                                        v \in {FgBlend, S("x")}}

StyleArgsFew ==
    {[StyleNone EXCEPT !["bg"] = v] : v \in {BgColor, BgImageUrl}}

\* The parameters of a public encode method m with its defaults.
PubDefaults(m) ==
    [column |-> S("c"), position |-> "TopRight", palette |-> None,
     as_categorical |-> None, as_continuous |-> None,
     categorical_mapping |-> None, continuous_binning |-> None,
     default_mapping |-> None, comparator |-> None,
     for_default |-> PyTrue, for_current |-> PyFalse,
     as_text |-> IF m \in {"encode_point_icon", "encode_edge_icon"}
                 THEN PyFalse ELSE None,
     blend_mode |-> None, style |-> None, border |-> None, shape |-> None,
     color |-> None, bg |-> None, fg |-> None]

CatMap1 == PyDictObj([a |-> S("red")])
CatMap2 == PyDictObj([a |-> S("blue"), b |-> S("green")])

\* Calls with a categorical mapping: into either layer, both or neither, with
\* and without a default mapping, and a second mapping for another column.
CategoricalCalls(m) ==
    {[PubDefaults(m) EXCEPT !.categorical_mapping = CatMap1,
                            !.for_default = fd, !.for_current = fc] :
        fd \in {PyTrue, PyFalse}, fc \in {PyTrue, PyFalse}}
    \cup {[PubDefaults(m) EXCEPT !.categorical_mapping = CatMap1,
                                 !.default_mapping = S("gray")],
          [PubDefaults(m) EXCEPT !.categorical_mapping = CatMap2,
                                 !.column = S("d"), !.default_mapping = S("")]}

\* A string passed as categorical_mapping by mistake.
InvalidCalls(m) ==
    IF m \in {"encode_point_color", "encode_edge_badge"}
    THEN {[PubDefaults(m) EXCEPT !.categorical_mapping = S("red")]}
    ELSE {}

EncodeCalls(m) == {PubDefaults(m)} \cup CategoricalCalls(m) \cup InvalidCalls(m)

EncodeCallsFew(m) ==
    {PubDefaults(m),
     [PubDefaults(m) EXCEPT !.categorical_mapping = CatMap1],
     [PubDefaults(m) EXCEPT !.categorical_mapping = CatMap1,
                            !.for_default = PyFalse, !.for_current = PyTrue]}

\* The tables and graph objects of the plot() calls.  The columns are s, d
\* and w of the edges and id and c of the nodes.
EdgeFrame ==
    DataFrame(<<S("s"), S("d"), S("w")>>,
              << <<I(1), I(2), S("x")>>, <<I(2), None, S("y")>> >>)
EdgeArrow == ArrowTable(EdgeFrame.cols, EdgeFrame.rows)
NodeFrame ==
    DataFrame(<<S("id"), S("c")>>, << <<I(1), S("red")>>, <<I(2), S("blue")>> >>)
IGraph1 ==
    IGraph(<<S("id")>>, << <<S("a")>>, <<S("b")>> >>, <<S("w")>>,
           << [tuple |-> <<0, 1>>, vals |-> <<I(5)>>] >>)
NxGraph1 ==
    NxGraph(<< [id |-> S("a"), attrs |-> << <<S("c"), S("red")>> >>],
               [id |-> S("b"), attrs |-> <<>>] >>,
            << [u |-> S("a"), v |-> S("b"), attrs |-> << <<S("w"), I(5)>> >>] >>)
Unsupported == PyListObj(<<>>)

\* The bindings of the plot() runs.
KwEndpoints == [KwNone EXCEPT !["source"] = S("s"), !["destination"] = S("d")]
KwNodeId ==
    [KwNone EXCEPT !["node"] = S("id"), !["point_color"] = S("c"),
                   !["edge_label"] = S("nope")]

\* The arguments of plot().
PlotArg(graph, nodes, name, skip_upload) ==
    [graph |-> graph, nodes |-> nodes, name |-> name, description |-> None,
     render |-> None, skip_upload |-> skip_upload]

\* Every input shape with and without a node table as a dry run, and two
\* uploads.
PlotArgs ==
    {PlotArg(g, n, S("g"), TRUE) :
        g \in {None, EdgeFrame, EdgeArrow, IGraph1, NxGraph1, Unsupported},
        n \in {None, NodeFrame}}
    \cup {PlotArg(EdgeFrame, None, None, s) : s \in BOOLEAN}

\* The versions of networkx, as networkx.__version__.split('.') gives them.
NxVersions == {<<1, 11>>, <<2, 4>>, <<2, 8, 8>>}

\* The session of a plot() call: the API version, the networkx installed,
\* whether IPython runs, and what random_string(10) returns.
PlotEnvs(a) ==
    {[api_version |-> v, nx_version |-> x, in_ipython |-> p, random_string |-> r] :
        v \in {1, 2, 3},
        x \in IF a.graph.t = "networkx" THEN NxVersions ELSE {<<2, 4>>},
        p \in IF a.skip_upload THEN {FALSE} ELSE BOOLEAN,
        r \in IF a.name = None THEN {"aaaaaaaaaa", "bbbbbbbbbb"} ELSE {"aaaaaaaaaa"}}

\* The edges (0,1), (1,2), (2,0).
TriangleRows == << <<I(0), I(1)>>, <<I(1), I(2)>>, <<I(2), I(0)>> >>

\* Edge tables of the remap runs: the rows below, one or two of them, and
\* tables whose endpoints are strings.
RemapRows ==
    {<<I(1), I(2)>>, <<I(2), I(1)>>, <<I(3), I(3)>>, <<I(1), None>>,
     <<None, I(2)>>}

RemapEdgeTables ==
    {DataFrame(<<S("s"), S("d")>>, rows) :
        rows \in {<<>>} \cup {<<r>> : r \in RemapRows}
                 \cup {<<r, q>> : r, q \in RemapRows}}
    \cup {DataFrame(<<S("s"), S("d")>>, rows) :
            rows \in {<< <<S("1"), I(1)>>, <<S("2"), I(2)>> >>,
                      << <<S("1"), S("x")>>, <<S("x"), S("1")>> >>,
                      << <<I(1), I(2)>>, <<I(2), I(3)>>, <<None, I(1)>> >>,
                      TriangleRows}}

\* A node table with a duplicate id, an absent id and an id of no edge.
NodeDup ==
    DataFrame(<<S("id"), S("c")>>,
              << <<I(1), S("red")>>, <<I(1), S("blue")>>, <<None, S("x")>>,
                 <<I(9), S("y")>> >>)

RemapArgs ==
    {PlotArg(e, n, S("g"), TRUE) : e \in RemapEdgeTables, n \in {None, NodeDup}}

RemapEnv ==
    [api_version |-> 2, nx_version |-> <<2, 4>>, in_ipython |-> FALSE,
     random_string |-> "aaaaaaaaaa"]

\* The tables of the record-list runs.  Next to the endpoints s and d and
\* the id, each has a column of values with an absent one (w, c) and
\* columns that carry the wire-level name of a feature.
WireEdges ==
    DataFrame(<<S("s"), S("d"), S("w"), S("edgeTitle")>>,
              << <<I(1), I(2), S("x"), S("t1")>>, <<I(2), I(1), None, S("t2")>> >>)
WireNodes ==
    DataFrame(<<S("id"), S("c"), S("pointLabel"), S("pointTitle")>>,
              << <<I(1), S("red"), S("l1"), S("p1")>>,
                 <<I(2), None, S("l2"), S("p2")>>,
                 <<I(1), S("blue"), S("l3"), S("p3")>> >>)

\* bind(source='s', destination='d', node='id', p=v)
KwWire(p, v) ==
    [KwNone EXCEPT !["source"] = S("s"), !["destination"] = S("d"),
                   !["node"] = S("id"), ![p] = v]

\* Every feature bound to the plain column of its table, and features
\* bound to a column named as another feature is on the wire, or to a
\* column the table lacks.
WireBinds ==
    {KwWire(p, S("w")) : p \in EdgeParams}
    \cup {KwWire(p, S("c")) : p \in PointParams}
    \cup {KwWire("edge_color", S("edgeTitle")), KwWire("edge_title", S("w")),
          KwWire("point_color", S("pointLabel")), KwWire("point_label", S("pointTitle")),
          KwWire("point_weight", S("nope"))}

WireArgs == {PlotArg(WireEdges, WireNodes, S("g"), TRUE)}

WireEnv ==
    [api_version |-> 1, nx_version |-> <<2, 4>>, in_ipython |-> FALSE,
     random_string |-> "aaaaaaaaaa"]

\* The node tables of the sanitization runs: up to two rows out of rows
\* with the same id, an absent id, and the ids '1' and 'a' as strings, and
\* tables of three of these rows.
DedupRows ==
    {<<I(1), S("red")>>, <<I(1), S("blue")>>, <<I(2), S("red")>>,
     <<None, S("x")>>, <<S("1"), S("y")>>, <<S("a"), None>>}

DedupThreeRows ==
    {<< <<I(1), S("red")>>, <<None, S("x")>>, <<I(1), S("blue")>> >>,
     << <<I(1), S("red")>>, <<I(1), S("blue")>>, <<I(2), S("red")>> >>,
     << <<I(2), S("red")>>, <<I(1), S("blue")>>, <<I(1), S("red")>> >>,
     << <<I(1), S("blue")>>, <<I(2), S("red")>>, <<I(1), S("red")>> >>,
     << <<S("1"), S("y")>>, <<I(1), S("red")>>, <<I(1), S("blue")>> >>,
     << <<I(1), S("red")>>, <<S("1"), S("y")>>, <<I(2), S("red")>> >>,
     << <<S("a"), None>>, <<None, S("x")>>, <<S("a"), None>> >>,
     << <<None, S("x")>>, <<None, S("x")>>, <<I(2), S("red")>> >>}

DedupNodeTables ==
    {DataFrame(<<S("id"), S("c")>>, rows) :
        rows \in {<<>>} \cup {<<r>> : r \in DedupRows}
                 \cup {<<r, q>> : r, q \in DedupRows}
                 \cup DedupThreeRows}

DedupArgs == {PlotArg(EdgeFrame, n, S("g"), TRUE) : n \in DedupNodeTables}

\* The calls of the format runs: endpoints bound to columns the edge table
\* has or lacks, a style group with and without keys, encodings in the
\* default layer, in the current layer and in neither.
KwMissing == [KwNone EXCEPT !["source"] = S("s"), !["destination"] = S("zz")]

FormatStyles ==
    {[StyleNone EXCEPT !["bg"] = BgColor],
     [StyleNone EXCEPT !["fg"] = PyDictObj(EmptyDict)]}

FormatEncodes ==
    {[PubDefaults("encode_point_color") EXCEPT !.categorical_mapping = CatMap1],
     [PubDefaults("encode_point_color") EXCEPT
         !.categorical_mapping = CatMap1,
         !.for_default = PyFalse, !.for_current = PyTrue],
     [PubDefaults("encode_point_color") EXCEPT
         !.categorical_mapping = CatMap1,
         !.for_default = PyFalse, !.for_current = PyFalse]}

FormatArgs ==
    {PlotArg(g, None, S("g"), TRUE) : g \in {EdgeFrame, IGraph1, Unsupported}}

\* The calls of the runs on the mandatory bindings: one endpoint bound,
\* both, or the node id, and every input shape with and without a node
\* table.
KwSourceOnly == [KwNone EXCEPT !["source"] = S("s")]

MandatoryArgs ==
    {PlotArg(g, n, S("g"), TRUE) :
        g \in {None, EdgeFrame, IGraph1, NxGraph1, Unsupported},
        n \in {None, NodeFrame}}

\* The calls of the runs that plot twice: a second igraph graph, and every
\* input shape with and without a node table.
IGraph2 ==
    IGraph(<<S("id")>>, << <<S("c")>>, <<S("d")>>, <<S("e")>> >>, <<>>,
           << [tuple |-> <<0, 2>>, vals |-> <<>>] >>)

RepeatArgs ==
    {PlotArg(g, n, S("g"), TRUE) :
        g \in {EdgeFrame, IGraph1, IGraph2, NxGraph1}, n \in {None, NodeFrame}}

\* pandas.concat([df] * n, ignore_index=True): a synthetic table of n
\* blocks of the rows of df.
Repeated(df, n) == [df EXCEPT !.times = n]

\* Synthetic edge tables around the size limits: the edge (1,2) once, a
\* million times, 8,000,000 times and 8,000,001 times, and 8,000,002 rows
\* of which every second one has no source.
SizeEdgeTables ==
    {Repeated(DataFrame(<<S("s"), S("d")>>, << <<I(1), I(2)>> >>), n) :
        n \in {1, 1000000, 8000000, 8000001}}
    \cup {Repeated(DataFrame(<<S("s"), S("d")>>,
                             << <<I(1), I(2)>>, <<None, I(2)>> >>), 4000001)}

SizeArgs ==
    {PlotArg(e, n, S("g"), TRUE) : e \in SizeEdgeTables, n \in {None, NodeFrame}}

SizeEnvs ==
    {[api_version |-> v, nx_version |-> <<2, 4>>, in_ipython |-> FALSE,
      random_string |-> "aaaaaaaaaa"] : v \in {1, 2, 3}}

(***************************************************************************)
(* Specifications                                                          *)
(***************************************************************************)
\* The receiver of a run that is one chain of calls.
ChainEnd == IF Len(insts) <= MaxInst THEN {Len(insts)} ELSE {}

\* Every configuration call, on any instance created so far.
Next ==
    \/ \E i \in Receivers, kw \in BindKwEach : Bind(i, kw)
    \/ \E i \in Receivers, node \in {None, S("b")} : Nodes(i, NodeTable1, node)
    \/ \E i \in Receivers, c \in {None, S("b")} : Edges(i, EdgeTable1, c, c)
    \/ \E i \in Receivers : Graph(i, EdgeTable1)
    \/ \E i \in Receivers : Name(i, S("n"))
    \/ \E i \in Receivers : Description(i, S("d"))
    \/ \E i \in Receivers, h \in {None, I(600)}, u \in {EmptyDict, [play |-> "0"]} :
          Settings(i, h, u, IF h = None THEN PyFalse ELSE None)
    \/ \E i \in Receivers, o \in StyleArgsFew : AddStyle(i, o)
    \/ \E i \in Receivers, o \in StyleArgsFew : Style(i, o)
    \/ \E i \in Receivers, m \in {"encode_point_color", "encode_edge_icon"} :
          \E pa \in EncodeCallsFew(m) : Encode(i, m, pa)

Spec == Init /\ [][Next]_vars

\* Chains of bind, nodes, edges and settings calls over every parameter.
NextBind ==
    \/ \E i \in ChainEnd, kw \in BindKw : Bind(i, kw)
    \/ \E i \in ChainEnd, node \in {None, S("b"), S("")} : Nodes(i, NodeTable1, node)
    \/ \E i \in ChainEnd, c \in {None, S("b"), I(0)} : Edges(i, EdgeTable1, c, None)
    \/ \E i \in ChainEnd, c \in {S("b"), I(0)} : Edges(i, EdgeTable1, None, c)
    \/ \E i \in ChainEnd, h \in HeightVals, r \in RenderVals :
          Settings(i, h, EmptyDict, r)

SpecBind == Init /\ [][NextBind]_vars

\* settings calls with URL parameters.
NextSettings ==
    \/ \E i \in Receivers, h \in {None, I(600)}, u \in UrlParamVals,
          r \in {None, PyFalse} : Settings(i, h, u, r)
    \/ \E i \in Receivers : Name(i, S("n"))

SpecSettings == Init /\ [][NextSettings]_vars

\* addStyle and style calls.
NextStyle ==
    \/ \E i \in Receivers, o \in StyleArgs : AddStyle(i, o)
    \/ \E i \in Receivers, o \in StyleArgs : Style(i, o)

SpecStyle == Init /\ [][NextStyle]_vars

\* encode calls, and bind calls between them.
NextEncode ==
    \/ \E i \in ChainEnd, m \in EncodeMethods :
          \E pa \in EncodeCalls(m) : Encode(i, m, pa)
    \/ \E i \in ChainEnd, kw \in {KwNone, Kw("point_color", S("a"))} : Bind(i, kw)

SpecEncode == Init /\ [][NextEncode]_vars

\* Chains of encode calls that write the same keys again, and other keys.
LastWriteMethods == {"encode_point_color", "encode_edge_color", "encode_point_badge"}

NextLastWrite ==
    \/ \E i \in ChainEnd, m \in LastWriteMethods :
          \E pa \in {PubDefaults(m)} \cup CategoricalCalls(m) : Encode(i, m, pa)
    \/ \E i \in ChainEnd : Bind(i, Kw("point_color", S("a")))

SpecLastWrite == Init /\ [][NextLastWrite]_vars

\* encode calls with no mapping, palette or binning: for either layer, both
\* or neither, with decoration arguments, and with no column.
PlainCalls(m) ==
    {[PubDefaults(m) EXCEPT !.for_default = fd, !.for_current = fc] :
        fd \in {PyTrue, PyFalse}, fc \in {PyTrue, PyFalse}}
    \cup {[PubDefaults(m) EXCEPT !.default_mapping = S("gray"), !.as_text = PyTrue,
                                 !.blend_mode = S("color-burn"),
                                 !.border = S("1px"), !.shape = S("circle")],
          [PubDefaults(m) EXCEPT !.column = None]}

PlainMethods == EncodeMethods \ {"encode_point_badge", "encode_edge_badge"}

NextPlain ==
    \/ \E i \in ChainEnd, m \in PlainMethods :
          \E pa \in PlainCalls(m) : Encode(i, m, pa)
    \/ \E i \in ChainEnd, m \in {"encode_point_color", "encode_point_badge"} :
          Encode(i, m, [PubDefaults(m) EXCEPT !.categorical_mapping = CatMap1])
    \/ \E i \in ChainEnd : Bind(i, Kw("point_size", S("a")))

SpecPlain == Init /\ [][NextPlain]_vars

\* encode_*_color calls with a palette: a list of color strings under every
\* pair of as_categorical / as_continuous, and palettes of other shapes.
Palette2 == PyListObj(<<S("red"), S("#00F")>>)
PaletteMixed == PyListObj(<<S("red"), I(255)>>)

PaletteCalls(m) ==
    {[PubDefaults(m) EXCEPT !.palette = Palette2,
                            !.as_categorical = ac, !.as_continuous = ao] :
        ac \in {None, PyTrue, PyFalse}, ao \in {None, PyTrue, PyFalse}}
    \cup {[PubDefaults(m) EXCEPT !.palette = pal, !.as_categorical = PyTrue] :
             pal \in {PaletteMixed, S("red"), PyListObj(<<>>)}}
    \cup {[PubDefaults(m) EXCEPT !.palette = Palette2, !.as_continuous = PyTrue,
                                 !.for_current = PyTrue]}

PaletteMethods == {"encode_point_color", "encode_edge_color"}

NextPalette ==
    \/ \E i \in ChainEnd, m \in PaletteMethods :
          \E pa \in PaletteCalls(m) : Encode(i, m, pa)
    \/ \E i \in ChainEnd : Bind(i, Kw("point_color", S("a")))

SpecPalette == Init /\ [][NextPalette]_vars

\* Badge calls with no mapping and no binning: at each position, for either
\* layer, both or neither, and with decorations; and one with a mapping.
BadgeCalls(m) ==
    {[PubDefaults(m) EXCEPT !.position = pos, !.for_default = fd, !.for_current = fc] :
        pos \in Positions, fd \in {PyTrue, PyFalse}, fc \in {PyTrue, PyFalse}}
    \cup {[PubDefaults(m) EXCEPT !.position = pos, !.color = S("white"),
                                 !.bg = S("black"), !.shape = S("circle"),
                                 !.default_mapping = S("gray")] : pos \in Positions}
    \cup {[PubDefaults(m) EXCEPT !.categorical_mapping = CatMap1]}

BadgeMethods == {"encode_point_badge", "encode_edge_badge"}

NextBadge ==
    \/ \E i \in ChainEnd, m \in BadgeMethods :
          \E pa \in BadgeCalls(m) : Encode(i, m, pa)
    \/ \E i \in ChainEnd : Bind(i, Kw("point_color", S("a")))

SpecBadge == Init /\ [][NextBadge]_vars

\* Calls with every combination of categorical_mapping, continuous_binning
\* and palette that the methods take.
Bins2 ==
    PyListObj(<<PyListObj(<<I(10), S("low")>>), PyListObj(<<None, S("high")>>)>>)

MappingCalls(m) ==
    IF m \in PaletteMethods
    THEN {[PubDefaults(m) EXCEPT !.categorical_mapping = cm, !.palette = pal,
                                 !.as_categorical = PyFalse] :
             cm \in {None, CatMap1}, pal \in {None, Palette2}}
    ELSE {[PubDefaults(m) EXCEPT !.categorical_mapping = cm,
                                 !.continuous_binning = cb,
                                 !.default_mapping = dm, !.comparator = dm] :
             cm \in {None, CatMap1}, cb \in {None, Bins2, S("10")},
             dm \in {None, S("other")}}

MappingMethods ==
    {"encode_point_color", "encode_point_icon", "encode_edge_icon", "encode_point_badge"}

NextMapping ==
    \E i \in ChainEnd, m \in MappingMethods :
       \E pa \in MappingCalls(m) : Encode(i, m, pa)

SpecMapping == Init /\ [][NextMapping]_vars

\* The receiver of a plot() call: the end of the chain.
PlotReceivers == {Len(insts)}

\* plot() of every input shape in every format, between the calls that
\* bind columns, hold tables and set a style or an encoding.
NextPlot ==
    \/ \E i \in ChainEnd, kw \in {KwEndpoints, KwNodeId} : Bind(i, kw)
    \/ \E i \in ChainEnd : Nodes(i, NodeFrame, None)
    \/ \E i \in ChainEnd : Edges(i, EdgeFrame, None, None)
    \/ \E i \in ChainEnd : AddStyle(i, [StyleNone EXCEPT !["bg"] = BgColor])
    \/ \E i \in ChainEnd :
          Encode(i, "encode_point_color",
                 [PubDefaults("encode_point_color") EXCEPT
                     !.categorical_mapping = CatMap1])
    \/ \E i \in PlotReceivers, a \in PlotArgs :
          \E env \in PlotEnvs(a) : Plot(i, a, env)

SpecPlot == Init /\ [][NextPlot]_vars

\* Dry runs of plot() in the vgraph format over the edge and node tables
\* of the remap.
NextRemap ==
    \/ \E i \in ChainEnd, kw \in {KwEndpoints, KwNodeId} : Bind(i, kw)
    \/ \E i \in PlotReceivers, a \in RemapArgs : Plot(i, a, RemapEnv)

SpecRemap == Init /\ [][NextRemap]_vars

\* Dry runs of plot() in the three formats over the synthetic tables.
NextSize ==
    \/ \E i \in ChainEnd, kw \in {KwEndpoints, KwNodeId} : Bind(i, kw)
    \/ \E i \in PlotReceivers, a \in SizeArgs, env \in SizeEnvs : Plot(i, a, env)

SpecSize == Init /\ [][NextSize]_vars

\* Dry runs of plot() in the json format after binding features.
NextWire ==
    \/ \E i \in ChainEnd, kw \in WireBinds : Bind(i, kw)
    \/ \E i \in PlotReceivers, a \in WireArgs : Plot(i, a, WireEnv)

SpecWire == Init /\ [][NextWire]_vars

\* Dry runs of plot(), one after the other on the same state.
NextRepeat ==
    \/ \E i \in ChainEnd, kw \in {KwEndpoints, KwNodeId} : Bind(i, kw)
    \/ \E i \in PlotReceivers, a \in RepeatArgs, env \in SizeEnvs : Plot(i, a, env)

SpecRepeat == Init /\ [][NextRepeat]_vars

\* Graph objects whose vertices carry, or lack, an attribute named as the
\* node binding is: 'id' or 'c'.
NxGraph2 ==
    NxGraph(<< [id |-> S("a"), attrs |-> <<>>],
               [id |-> S("b"), attrs |-> << <<S("c"), S("blue")>>, <<S("id"), I(7)>> >>] >>,
            << [u |-> S("a"), v |-> S("b"), attrs |-> <<>>] >>)

OverlapArgs ==
    {PlotArg(g, None, S("g"), TRUE) : g \in {IGraph1, IGraph2, NxGraph1, NxGraph2}}

OverlapEnvs ==
    {[api_version |-> v, nx_version |-> x, in_ipython |-> FALSE,
      random_string |-> "aaaaaaaaaa"] : v \in {1, 2, 3}, x \in {<<1, 11>>, <<2, 4>>}}

NextOverlap ==
    \/ \E i \in ChainEnd, kw \in {KwEndpoints, Kw("node", S("id")), Kw("node", S("c"))} :
          Bind(i, kw)
    \/ \E i \in PlotReceivers, a \in OverlapArgs, env \in OverlapEnvs : Plot(i, a, env)

SpecOverlap == Init /\ [][NextOverlap]_vars

\* Edge tables with rows that lack an endpoint: the row (3, None) holds the
\* only occurrence of 3, the row (None, 1) an endpoint other rows hold too.
GappyRows ==
    << <<I(1), I(2), S("x")>>, <<I(3), None, S("y")>>,
       <<None, I(1), S("z")>>, <<I(2), I(1), S("x")>> >>

SanitizeEdgeTables ==
    {EdgeFrame, DataFrame(EdgeFrame.cols, GappyRows),
     ArrowTable(EdgeFrame.cols, GappyRows), DataFrame(EdgeFrame.cols, <<>>)}

SanitizeArgs ==
    {PlotArg(e, n, S("g"), TRUE) : e \in SanitizeEdgeTables, n \in {None, NodeFrame}}

NextSanitize ==
    \/ \E i \in ChainEnd, kw \in {KwEndpoints, KwNodeId} : Bind(i, kw)
    \/ \E i \in PlotReceivers, a \in SanitizeArgs, env \in SizeEnvs : Plot(i, a, env)

SpecSanitize == Init /\ [][NextSanitize]_vars

\* Node tables for the join of the vgraph path: a row per endpoint; a node
\* of no edge and an endpoint with no row; an identifier twice; and the
\* identifier 1 once as a string and once as a number.
FilterNodeTables ==
    {NodeFrame,
     DataFrame(NodeFrame.cols, << <<I(5), S("red")>>, <<I(2), S("blue")>> >>),
     DataFrame(NodeFrame.cols,
               << <<I(2), S("red")>>, <<I(1), S("blue")>>, <<I(2), S("green")>> >>),
     DataFrame(NodeFrame.cols,
               << <<S("1"), S("red")>>, <<I(1), S("blue")>>, <<I(2), S("green")>> >>)}

FilterArgs ==
    {PlotArg(e, n, S("g"), TRUE) :
        e \in {EdgeFrame, DataFrame(EdgeFrame.cols, GappyRows)},
        n \in FilterNodeTables}

NextFilter ==
    \/ \E i \in ChainEnd, kw \in {KwEndpoints, Kw("node", S("id"))} : Bind(i, kw)
    \/ \E i \in PlotReceivers, a \in FilterArgs, env \in SizeEnvs : Plot(i, a, env)

SpecFilter == Init /\ [][NextFilter]_vars

\* Bindings to columns the tables hold (w of the edges, c of the nodes), to
\* columns they lack, and to the wire-level name of another feature; and
\* an endpoint and a node id bound to columns the tables lack.
SchemaBinds ==
    {KwWire("point_color", S("c")), KwWire("point_color", S("nope")),
     KwWire("edge_label", S("nope")), KwWire("edge_color", S("w")),
     KwWire("point_title", S("nope")), KwWire("point_label", S("pointColor")),
     KwWire("edge_title", S("edgeColor")),
     Kw("destination", S("zz")), Kw("node", S("zz"))}

SchemaArgs ==
    {PlotArg(EdgeFrame, n, S("g"), TRUE) : n \in {None, NodeFrame}}

NextSchema ==
    \/ \E i \in ChainEnd, kw \in SchemaBinds : Bind(i, kw)
    \/ \E i \in PlotReceivers, a \in SchemaArgs, env \in SizeEnvs : Plot(i, a, env)

SpecSchema == Init /\ [][NextSchema]_vars

\* Sessions whose API version is one of the three or another number, and
\* calls on every input shape, as dry runs and as uploads.
VersionEnvs ==
    {[api_version |-> v, nx_version |-> <<2, 4>>, in_ipython |-> FALSE,
      random_string |-> "aaaaaaaaaa"] : v \in {0, 1, 3, 4}}

VersionArgs ==
    {PlotArg(g, n, S("g"), s) :
        g \in {None, EdgeFrame, IGraph1, NxGraph1}, n \in {None, NodeFrame},
        s \in BOOLEAN}

NextVersion ==
    \/ \E i \in ChainEnd, kw \in {KwEndpoints, KwNodeId} : Bind(i, kw)
    \/ \E i \in PlotReceivers, a \in VersionArgs, env \in VersionEnvs : Plot(i, a, env)

SpecVersion == Init /\ [][NextVersion]_vars

\* Dry runs of plot() by states with and without the mandatory bindings.
NextMandatory ==
    \/ \E i \in ChainEnd, kw \in {KwEndpoints, KwSourceOnly, KwNodeId} : Bind(i, kw)
    \/ \E i \in ChainEnd : Nodes(i, NodeFrame, None)
    \/ \E i \in ChainEnd : Edges(i, EdgeFrame, None, None)
    \/ \E i \in PlotReceivers, a \in MandatoryArgs, env \in SizeEnvs : Plot(i, a, env)

SpecMandatory == Init /\ [][NextMandatory]_vars

\* Dry runs of plot() in the three formats by states with and without
\* style groups and complex encodings.
NextFormat ==
    \/ \E i \in ChainEnd, kw \in {KwEndpoints, KwMissing} : Bind(i, kw)
    \/ \E i \in ChainEnd, o \in FormatStyles : AddStyle(i, o)
    \/ \E i \in ChainEnd, pa \in FormatEncodes : Encode(i, "encode_point_color", pa)
    \/ \E i \in PlotReceivers, a \in FormatArgs, env \in SizeEnvs : Plot(i, a, env)

SpecFormat == Init /\ [][NextFormat]_vars

\* Dry runs of plot() in the json format over the node tables.
NextDedup ==
    \/ \E i \in ChainEnd, kw \in {KwEndpoints, KwWire("point_color", S("c"))} :
          Bind(i, kw)
    \/ \E i \in PlotReceivers, a \in DedupArgs : Plot(i, a, WireEnv)

SpecDedup == Init /\ [][NextDedup]_vars

(***************************************************************************)
(* What a caller reads from an instance: its attributes, the dicts behind   *)
(* its references included.                                                 *)
(***************************************************************************)
View(inst, u, st, e) ==
    [inst EXCEPT !.url_params = u[inst.url_params],
                 !.style = IF inst.style = 0 THEN None ELSE st[inst.style],
                 !.complex_encodings = e[inst.complex_encodings]]

Fields(j) == View(insts[j], urlObjs, styleObjs, encObjs)

InitFields == View(NewPlotter(1, 1), <<InitUrlParams>>, <<>>, <<InitComplexEncodings>>)

\* The receiver and the result of the last call, when it returned.
Recv == Fields(last.recv)
Res == Fields(last.res)

ConfigOps ==
    {"bind", "nodes", "edges", "graph", "name", "description", "settings",
     "style", "addStyle"} \cup EncodeMethods

(***************************************************************************)
(* C1.  No configuration call changes an instance that exists: whatever    *)
(* the call and its receiver, every attribute of every instance created    *)
(* before the call, the receiver and the instances derived from it or      *)
(* beside it included, reads the same after the call as before it.         *)
(***************************************************************************)
C1_ReceiverNeverMutated ==
    [][last'.op \in ConfigOps =>
         \A j \in 1 .. Len(insts) :
            View(insts'[j], urlObjs', styleObjs', encObjs') = Fields(j)]_vars

\* g1 = g.encode_point_color(..), g2 = g1.encode_edge_icon(..) into other
\* entries, and g still reads as constructed.
C1_Witness ==
    /\ Len(insts) = 3
    /\ made[2].recv = 1 /\ made[2].op = "encode_point_color"
    /\ made[3].recv = 2 /\ made[3].op = "encode_edge_icon"
    /\ Fields(3).complex_encodings # Fields(2).complex_encodings
    /\ Fields(2).complex_encodings # Fields(1).complex_encodings
    /\ Fields(1) = InitFields

(***************************************************************************)
(* C2.  plot() only reads the receiver: whatever the graph given (tables,  *)
(* an igraph graph, a networkx graph, anything else), the format of the    *)
(* session and the outcome (a payload or an exception), every attribute of *)
(* every instance, the node binding of the receiver among them, reads the  *)
(* same after the call as before it.  The code does not keep this:         *)
(* igraph2pandas and networkx2pandas assign self._node on the receiver     *)
(* when no node column is bound.                                           *)
(***************************************************************************)
C2_PlotOnlyReads ==
    [][last'.op = "plot" =>
         \A j \in 1 .. Len(insts) :
            View(insts'[j], urlObjs', styleObjs', encObjs') = Fields(j)]_vars

\* d.get(k) as a set: empty when the key is absent.
Lookup(d, k) == IF k \in DOMAIN d THEN {d[k]} ELSE {}

(***************************************************************************)
(* C3.  A parameter passed as None keeps the receiver's value: in the      *)
(* state bind returns, every parameter that was None in the call has the   *)
(* value it has in the receiver, and settings with height (render) None    *)
(* returns the receiver's height (render flag).                            *)
(***************************************************************************)
C3_NoneKeeps ==
    /\ last.op = "bind" =>
          \A p \in BindParams : last.args[p] = None => Res.b[p] = Recv.b[p]
    /\ last.op = "settings" =>
          /\ last.args.height = None => Res.height = Recv.height
          /\ last.args.render = None => Res.render = Recv.render

\* bind() with no argument on a state whose point_color is bound.
C3_Witness ==
    /\ last.op = "bind" /\ last.args = KwNone
    /\ Recv.b["point_color"] = S("a")
    /\ Res.b["point_color"] = S("a")

(***************************************************************************)
(* C4.  Every parameter passed as a value other than None is applied: the  *)
(* state bind returns holds that value for the parameter, the empty        *)
(* string and the integer 0 included, and settings(height=v) returns       *)
(* height v.                                                                *)
(***************************************************************************)
C4_NonNullApplied ==
    /\ last.op = "bind" =>
          \A p \in BindParams : last.args[p] # None => Res.b[p] = last.args[p]
    /\ last.op = "settings" =>
          (last.args.height # None => Res.height = last.args.height)

(***************************************************************************)
(* C5.  An encode call changes no entry of complex_encodings but the one   *)
(* under its own key, in its own group, in the layers its flags select;    *)
(* bind returns complex_encodings equal to the receiver's.                 *)
(***************************************************************************)
EncGroups == {"node_encodings", "edge_encodings"}
EncLayers == {"current", "default"}

\* The flag of the last encode call that selects layer l.
LastFlag(l) ==
    IF l = "current" THEN IfNone(last.args.for_current, PyFalse)
    ELSE IfNone(last.args.for_default, PyTrue)

\* The group the last encode call writes: node for point, edge for edge.
LastGroup == IF last.args.graph_type = "point" THEN "node_encodings" ELSE "edge_encodings"

MethodKey ==
    [encode_point_color |-> <<"point", "color", "pointColorEncoding">>,
     encode_edge_color |-> <<"edge", "color", "edgeColorEncoding">>,
     encode_point_size |-> <<"point", "size", "pointSizeEncoding">>,
     encode_point_icon |-> <<"point", "icon", "pointIconEncoding">>,
     encode_edge_icon |-> <<"edge", "icon", "edgeIconEncoding">>]

IsCategoricalEncoding(e, graph_type, feature, column, M, d) ==
    /\ e.graphType = S(graph_type)
    /\ e.encodingType = S(feature)
    /\ e.attribute = column
    /\ e.variation = S("categorical")
    /\ DOMAIN e.mapping = {"categorical"}
    /\ e.mapping.categorical.fixed = M
    /\ ("other" \in DOMAIN e.mapping.categorical) <=> (d # None)
    /\ d # None => e.mapping.categorical.other = d

C6_CategoricalEncoding ==
    last.op \in EncodeMethods /\ last.args.categorical_mapping # None =>
       IF IsDict(last.args.categorical_mapping)
       THEN /\ last.ok
            /\ last.op \in DOMAIN MethodKey =>
                  <<last.args.graph_type, last.args.feature,
                    last.args.feature_binding>> = MethodKey[last.op]
            /\ \A l \in EncLayers :
                  LastFlag(l) = PyTrue =>
                     /\ last.args.feature_binding
                           \in DOMAIN Res.complex_encodings[LastGroup][l]
                     /\ IsCategoricalEncoding(
                           Res.complex_encodings[LastGroup][l][last.args.feature_binding],
                           last.args.graph_type, last.args.feature,
                           last.args.column, last.args.categorical_mapping,
                           last.args.default_mapping)
       ELSE ~last.ok /\ last.err = "ValueError"

\* encode_point_color(c, categorical_mapping={'a': 'red'}, default_mapping='gray')
C6_Witness ==
    /\ last.op = "encode_point_color" /\ last.ok
    /\ last.args.categorical_mapping = CatMap1
    /\ last.args.default_mapping = S("gray")
    /\ Res.complex_encodings.node_encodings.default["pointColorEncoding"].mapping
          = [categorical |-> [fixed |-> CatMap1, other |-> S("gray")]]

(***************************************************************************)
(* C7.  addStyle and the groups of the receiver.                           *)
(***************************************************************************)
\* The style dict of a view: {} for None.
StyleOf(f) == IF f.style = None THEN EmptyDict ELSE f.style

\* Every key of old that new does not name, at any depth, is in res with
\* old's value.
RECURSIVE KeepsUnnamed(_, _, _)
KeepsUnnamed(old, new, res) ==
    /\ IsDict(res)
    /\ \A k \in DOMAIN old.d :
          /\ k \in DOMAIN res.d
          /\ IF k \notin DOMAIN new.d THEN res.d[k] = old.d[k]
             ELSE IF IsDict(old.d[k]) /\ IsDict(new.d[k])
                  THEN KeepsUnnamed(old.d[k], new.d[k], res.d[k])
                  ELSE TRUE

\* C7, the claim as written: addStyle merges a group given as a dict into
\* the receiver's group at every nesting depth, so every nested key the
\* call does not name keeps its earlier value, and a group not given is as
\* in the receiver.  The code merges the first level only.
C7_DeepMergeEveryDepth ==
    last.op = "addStyle" /\ last.ok =>
       \A g \in DOMAIN last.args :
          /\ last.args[g] = None => Lookup(StyleOf(Res), g) = Lookup(StyleOf(Recv), g)
          /\ (IsDict(last.args[g]) /\ g \in DOMAIN StyleOf(Recv)
                /\ IsDict(StyleOf(Recv)[g]))
             => KeepsUnnamed(StyleOf(Recv)[g], last.args[g], StyleOf(Res)[g])

\* What addStyle does instead: it merges one level deep.  A group given as
\* a dict, where the receiver has no such group or has a dict, becomes the
\* dict with the keys of both: a key of the call has the value of the call
\* (a nested dict replaces the earlier nested dict whole), every other key
\* its earlier value.  A group given as another value replaces the group, a
\* group not given is as in the receiver, and the call raises only when a
\* dict that is not empty is given for a group the receiver holds as a
\* value that is no dict.
C7_MergeOneLevel ==
    /\ last.op = "addStyle" /\ last.ok =>
          \A g \in DOMAIN last.args :
             LET old == IF g \in DOMAIN StyleOf(Recv) THEN StyleOf(Recv)[g]
                        ELSE PyDictObj(EmptyDict)
                 new == last.args[g]
             IN  /\ new = None => Lookup(StyleOf(Res), g) = Lookup(StyleOf(Recv), g)
                 /\ new # None /\ ~IsDict(new) => Lookup(StyleOf(Res), g) = {new}
                 /\ IsDict(new) /\ IsDict(old) =>
                       /\ g \in DOMAIN StyleOf(Res)
                       /\ IsDict(StyleOf(Res)[g])
                       /\ DOMAIN StyleOf(Res)[g].d = DOMAIN old.d \cup DOMAIN new.d
                       /\ \A k \in DOMAIN StyleOf(Res)[g].d :
                             StyleOf(Res)[g].d[k]
                                = IF k \in DOMAIN new.d THEN new.d[k] ELSE old.d[k]
    /\ last.op = "addStyle" /\ ~last.ok =>
          \E g \in DOMAIN last.args :
             /\ IsDict(last.args[g]) /\ DOMAIN last.args[g].d # {}
             /\ g \in DOMAIN StyleOf(Recv)
             /\ ~IsDict(StyleOf(Recv)[g])

\* addStyle(bg={'image': {'width': 9}}) on a state whose bg is
\* {'color': 'black', 'image': {'url': 'u'}}: color stays, image.url goes.
C7_Witness ==
    /\ last.op = "addStyle" /\ last.ok
    /\ last.args["bg"] = BgImageWidth
    /\ Lookup(StyleOf(Recv), "bg") = {BgColorImage}
    /\ Lookup(StyleOf(Res), "bg")
          = {PyDictObj([color |-> S("black"), image |-> BgImageWidth.d.image])}

(***************************************************************************)
(* C8.  style() replaces: a group given is exactly the value given, a      *)
(* group passed as None is as in the receiver.                             *)
(***************************************************************************)
C8_StyleReplaces ==
    last.op = "style" =>
       /\ last.ok
       /\ \A g \in DOMAIN last.args :
             IF last.args[g] # None
             THEN Lookup(StyleOf(Res), g) = {last.args[g]}
             ELSE Lookup(StyleOf(Res), g) = Lookup(StyleOf(Recv), g)

\* style(bg={'image': ..}) on a state with bg = {'color': 'black'} and an fg.
C8_Witness ==
    /\ last.op = "style"
    /\ last.args["bg"] = BgImageUrl /\ last.args["fg"] = None
    /\ Lookup(StyleOf(Recv), "fg") = {FgBlend}
    /\ Lookup(StyleOf(Recv), "bg") = {BgColor}
    /\ Lookup(StyleOf(Res), "bg") = {BgImageUrl}
    /\ Lookup(StyleOf(Res), "fg") = {FgBlend}

(***************************************************************************)
(* C9.  The url_params of every instance are the union of {'info': 'true'} *)
(* and the url_params of the settings calls on the chain of calls that     *)
(* made it, the latest call that names a key giving its value; a settings  *)
(* call with no url_params returns the receiver's mapping.                 *)
(***************************************************************************)
UrlKeys == {"info", "play"}

\* The value the chain of calls behind instance j gave key k last, as a set.
RECURSIVE UrlLatest(_, _)
UrlLatest(j, k) ==
    IF made[j].op = "settings" /\ k \in DOMAIN made[j].args.url_params
    THEN {made[j].args.url_params[k]}
    ELSE IF j = 1 THEN Lookup([info |-> "true"], k)
    ELSE UrlLatest(made[j].recv, k)

C9_UrlParamsMerged ==
    /\ \A j \in 1 .. Len(insts) :
          /\ DOMAIN Fields(j).url_params \subseteq UrlKeys
          /\ \A k \in UrlKeys : Lookup(Fields(j).url_params, k) = UrlLatest(j, k)
    /\ last.op = "settings" /\ last.args.url_params = EmptyDict =>
          Res.url_params = Recv.url_params

\* settings(url_params={'play': '0', 'info': 'false'}) then
\* settings(url_params={'play': '1'}).
C9_Witness ==
    /\ Len(insts) = 3
    /\ made[2].recv = 1 /\ made[2].op = "settings"
    /\ made[2].args.url_params = [play |-> "0", info |-> "false"]
    /\ made[3].recv = 2 /\ made[3].op = "settings"
    /\ made[3].args.url_params = [play |-> "1"]
    /\ Fields(3).url_params = [play |-> "1", info |-> "false"]
    /\ Fields(2).url_params = [play |-> "0", info |-> "false"]

(***************************************************************************)
(* C10.  The dense remap of the vgraph format.  For every edge table and   *)
(* node table, rows with an absent endpoint and duplicate node rows        *)
(* included: the edges the payload keeps are the rows given that have both *)
(* endpoints; the keys of node_map are exactly the identifiers that are a  *)
(* source or a destination of a kept edge; node_map is injective and its   *)
(* values are exactly 0 .. k-1 for k the number of those identifiers; the  *)
(* source and the destination of every kept edge map into 0 .. k-1.        *)
(***************************************************************************)
\* The last call was a dry run of plot() that returned a vgraph payload.
IsVgraphPayload ==
    last.op = "plot" /\ last.ok /\ last.mode = "vgraph" /\ last.args.skip_upload

\* The rows of the table df that have a value in both endpoint columns.
WithBothEndpoints(df, source, destination) ==
    {r \in DOMAIN df.rows :
        /\ df.rows[r][IndexOf(df.cols, source)] # None
        /\ df.rows[r][IndexOf(df.cols, destination)] # None}

C10_DenseRemapBijection ==
    IsVgraphPayload =>
        LET d == last.out.dataset
            ids == {d.sources[j] : j \in DOMAIN d.sources}
                   \cup {d.dests[j] : j \in DOMAIN d.dests}
            k == Cardinality(ids)
            self == insts[last.recv]
        IN  /\ Len(d.sources) = Len(d.dests)
            /\ Len(d.sources) =
                   Cardinality(WithBothEndpoints(last.args.graph, self.b["source"],
                                                 self.b["destination"]))
            /\ None \notin ids
            /\ DOMAIN d.node_map = ids
            /\ \A x, y \in ids : d.node_map[x] = d.node_map[y] => x = y
            /\ {d.node_map[x] : x \in ids} = 0 .. (k - 1)
            /\ \A j \in DOMAIN d.sources :
                  /\ d.node_map[d.sources[j]] \in 0 .. (k - 1)
                  /\ d.node_map[d.dests[j]] \in 0 .. (k - 1)

\* Edges (1,2), (2,3) and (None,1) with the node table of ids 1, 1, None, 9:
\* two edges are kept and their three identifiers are numbered 0, 1, 2.
C10_Witness ==
    /\ IsVgraphPayload
    /\ last.args.nodes = NodeDup
    /\ last.args.graph.rows =
           << <<I(1), I(2)>>, <<I(2), I(3)>>, <<None, I(1)>> >>
    /\ last.out.dataset.sources = <<I(1), I(2)>>
    /\ last.out.dataset.dests = <<I(2), I(3)>>
    /\ last.out.dataset.node_map = (I(1) :> 0) @@ (I(2) :> 1) @@ (I(3) :> 2)

(***************************************************************************)
(* C11.  The order of the dense remap of the vgraph format.  The           *)
(* identifiers are numbered from 0 in the order they are first seen in     *)
(* the source values of the kept edges in row order followed by their      *)
(* destination values in row order: the number of an identifier is the     *)
(* count of identifiers first seen before it, so the map is a function of  *)
(* that order alone.  For the edges (0,1), (1,2), (2,0) with no node       *)
(* table and no node binding the node table of the payload holds exactly   *)
(* the ids 0, 1, 2 under the default column and the map is the identity.   *)
(***************************************************************************)
\* The position at which x is first seen in the sequence s.
FirstSeen(s, x) == CHOOSE k \in DOMAIN s : s[k] = x /\ \A j \in 1 .. (k - 1) : s[j] # x

\* The last call was a dry run on the triangle with no node table, by a
\* receiver with no node binding.
IsTriangleCall ==
    /\ IsVgraphPayload
    /\ last.args.graph.rows = TriangleRows
    /\ last.args.nodes = None /\ insts[last.recv].nodes = None
    /\ last.out.dataset.nodeid = defaultNodeId

C11_DenseRemapOrder ==
    /\ IsVgraphPayload =>
          LET d == last.out.dataset
              seq == d.sources \o d.dests
              ids == {seq[j] : j \in DOMAIN seq}
          IN  /\ DOMAIN d.node_map = ids
              /\ \A x \in ids :
                    d.node_map[x] =
                       Cardinality({y \in ids : FirstSeen(seq, y) < FirstSeen(seq, x)})
    /\ IsTriangleCall =>
          LET d == last.out.dataset
          IN  /\ d.sources = <<I(0), I(1), I(2)>>
              /\ d.dests = <<I(1), I(2), I(0)>>
              /\ d.nodes = DataFrame(<<defaultNodeId>>, << <<I(0)>>, <<I(1)>>, <<I(2)>> >>)
              /\ d.node_map = (I(0) :> 0) @@ (I(1) :> 1) @@ (I(2) :> 2)

\* The triangle was plotted and its three identifiers are numbered 0, 1, 2.
C11_Witness ==
    /\ IsTriangleCall
    /\ last.out.dataset.node_map = (I(0) :> 0) @@ (I(1) :> 1) @@ (I(2) :> 2)

(***************************************************************************)
(* C12.  The size limits in every format.  A call of plot() that passes    *)
(* the check of the mandatory bindings, in any of the three formats,       *)
(* fails in _check_dataset_size and returns no payload when its edge       *)
(* table has more than 8,000,000 rows or its node table has more than      *)
(* 8,000,000 rows, and does not fail there when the edge table has         *)
(* exactly 8,000,000 rows and the node table at most 8,000,000.  The code  *)
(* does not keep this: the arrow format never calls _check_dataset_size.   *)
(***************************************************************************)
\* The last call was plot() on tables, past the mandatory bindings.
IsTablesCall ==
    /\ last.op = "plot"
    /\ last.args.graph # None /\ last.args.graph.t \in {"DataFrame", "Table"}
    /\ (~last.ok => last.out.at # "_check_mandatory_bindings")

\* The call failed on a size limit.
CapacityExceeded == ~last.ok /\ last.out.at = "_check_dataset_size"

C12_CeilingsEveryFormat ==
    IsTablesCall =>
        LET e == last.args.graph
            n == last.args.nodes
        IN  /\ (RowCount(e) > MaxEdgeCount
                  \/ (n # None /\ RowCount(n) > MaxNodeCount)) => CapacityExceeded
            /\ (RowCount(e) = MaxEdgeCount
                  /\ (n = None \/ RowCount(n) <= MaxNodeCount)) => ~CapacityExceeded

(***************************************************************************)
(* C13.  The scalar bindings in the json payload.                          *)
(***************************************************************************)
\* The last call was a dry run of plot() that returned a json payload.
IsJsonPayload ==
    last.op = "plot" /\ last.ok /\ last.mode = "json" /\ last.args.skip_upload

\* The wire-level names of the features in wires.
WireNames(wires) == {S(wires[k][1]) : k \in DOMAIN wires}

\* Every record has under the wire-level name of each feature of wires,
\* bound to a column of the table given that Covered admits, the value it
\* has under that column.
RoundTrip(records, table, wires, Covered(_, _)) ==
    \A k \in DOMAIN wires :
        LET pbname == S(wires[k][1])
            c == insts[last.recv].b[wires[k][2]]
        IN  (c # None /\ Contains(table.cols, c) /\ Covered(pbname, c)) =>
               \A r \in DOMAIN records :
                  /\ pbname \in DOMAIN records[r]
                  /\ c \in DOMAIN records[r]
                  /\ records[r][pbname] = records[r][c]

AnyColumn(pbname, c) == TRUE
NoEdgeWireName(pbname, c) == c \notin WireNames(EdgeWire) \ {pbname}
NoPointWireName(pbname, c) == c \notin WireNames(PointWire) \ {pbname}

\* C13, the claim as written: in the json payload every record of labels
\* has under the wire-level name of a point feature bound to a column c of
\* the node table the value it has under c, and every record of graph the
\* same for the edge features, whatever column c is.
C13_RoundTripEveryColumn ==
    IsJsonPayload =>
        /\ RoundTrip(last.out.dataset.labels, last.args.nodes, PointWire, AnyColumn)
        /\ RoundTrip(last.out.dataset.graph, last.args.graph, EdgeWire, AnyColumn)

\* C13 amended: the same for every column c that is not the wire-level
\* name of another feature of the same table (a later bind() call of
\* _bind_attributes_v1 writes such a column).
C13_RoundTrip ==
    IsJsonPayload =>
        /\ RoundTrip(last.out.dataset.labels, last.args.nodes, PointWire, NoPointWireName)
        /\ RoundTrip(last.out.dataset.graph, last.args.graph, EdgeWire, NoEdgeWireName)

\* point_color is bound to c: the record of node 1 has pointColor = c =
\* 'red' and the record of node 2 has None under both.
C13_Witness ==
    /\ IsJsonPayload
    /\ insts[last.recv].b["point_color"] = S("c")
    /\ Len(last.out.dataset.labels) = 2
    /\ last.out.dataset.labels[1][S("pointColor")] = S("red")
    /\ last.out.dataset.labels[1][S("c")] = S("red")
    /\ last.out.dataset.labels[2][S("pointColor")] = None
    /\ last.out.dataset.labels[2][S("c")] = None

(***************************************************************************)
(* C14.  The node table after _sanitize_dataset, as the json payload       *)
(* shows it in labels.  For every node table given: labels has one record  *)
(* per distinct identifier of the table that is not absent; the records    *)
(* are the first rows of their identifiers in the order of the table (a    *)
(* record has the values of its row, a string that reads as a number       *)
(* possibly as that number); rows with an absent identifier and later rows *)
(* of an identifier have no record.                                        *)
(***************************************************************************)
\* The value out is the value given, or the number the string given reads as.
AsGiven(out, given) ==
    \/ out = given
    \/ given.t = "str" /\ out.t = "int" /\ ToString(out.n) = given.s

\* The rows of df that are the first of a present value of column c.
FirstRows(df, c) ==
    {k \in DOMAIN df.rows :
        /\ df.rows[k][IndexOf(df.cols, c)] # None
        /\ \A j \in 1 .. (k - 1) :
              df.rows[j][IndexOf(df.cols, c)] # df.rows[k][IndexOf(df.cols, c)]}

HoldsStyleGroup ==
    /\ Recv.style # None
    /\ \E g \in {"fg", "bg", "page", "logo"} : g \in DOMAIN Recv.style

\* The receiver of the last call holds a complex encoding.
HoldsComplexEncoding ==
    \E g \in {"node_encodings", "edge_encodings"}, l \in {"current", "default"} :
        DOMAIN Recv.complex_encodings[g][l] # {}

\* The functions that raise from the sanitization on.
SanitizationOn == {"_check_bound_attribs", "_sanitize_dataset", "_check_dataset_size"}

C15_FormatIncompatibility ==
    (last.op = "plot" /\ (HoldsStyleGroup \/ HoldsComplexEncoding)) =>
        /\ last.mode \in {"json", "vgraph"} =>
              /\ ~last.ok
              /\ "dataset" \notin DOMAIN last.out
              /\ last.out.at \notin SanitizationOn
              /\ IsTablesCall => last.out.at = "_make_dataset"
              /\ last.out.warnings \subseteq {"Graph has no edges"}
        /\ (last.mode = "arrow" /\ IsTablesCall) =>
              /\ last.ok
              /\ last.out.dataset.type = "arrow"
              /\ HoldsStyleGroup =>
                    \A g \in DOMAIN Recv.style :
                       /\ g \in DOMAIN last.out.dataset.metadata
                       /\ last.out.dataset.metadata[g] = Recv.style[g]
              /\ last.out.dataset.node_encodings.complex_encodings
                    = Recv.complex_encodings["node_encodings"]
              /\ last.out.dataset.edge_encodings.complex_encodings
                    = Recv.complex_encodings["edge_encodings"]

\* A state with the destination bound to a column the table lacks and the
\* group fg set to {}: the json call fails in _make_dataset.
C15_Witness ==
    /\ last.op = "plot" /\ last.mode = "json" /\ IsTablesCall
    /\ insts[last.recv].b["destination"] = S("zz")
    /\ Recv.style # None /\ DOMAIN Recv.style = {"fg"}
    /\ ~last.ok /\ last.out.at = "_make_dataset"

(***************************************************************************)
(* C16.  A dry run makes no call to the server.  With each of the three    *)
(* API versions, plot(skip_upload=True) that returns, returns the dataset  *)
(* _plot_dispatch made, and from its entry to its return or failure no     *)
(* call that reaches the server is made: no upload, no post, no token      *)
(* fetch and no token refresh.  The code does not keep this: with API      *)
(* version 3 plot() calls PyGraphistry.refresh() before it looks at        *)
(* skip_upload.                                                            *)
(***************************************************************************)
C16_DryRunNoNetwork ==
    (last.op = "plot" /\ last.args.skip_upload) =>
        /\ last.out.calls = <<>>
        /\ last.ok => last.out.dataset.type \in {"edgelist", "vgraph", "arrow"}

(***************************************************************************)
(* C17.  The mandatory bindings are checked first.  A call of plot() by a  *)
(* state whose source or destination is unset fails, for every input       *)
(* shape, and so does a call that has a node table, passed or set earlier, *)
(* by a state whose node binding is unset.  The call returns no payload    *)
(* and fails before anything else is done: it fails in                     *)
(* _check_mandatory_bindings called by plot() (in plot() itself when there *)
(* is no graph at all), makes no call to the server, and leaves every      *)
(* instance as it was, so no graph object was converted.                   *)
(***************************************************************************)
C17_MandatoryBindingsFirst ==
    [][last'.op = "plot" =>
         LET self == insts[last'.recv]
             n == IF last'.args.nodes = None THEN self.nodes ELSE last'.args.nodes
             missing == \/ self.b["source"] = None
                        \/ self.b["destination"] = None
                        \/ n # None /\ self.b["node"] = None
         IN  missing =>
                /\ ~last'.ok
                /\ "dataset" \notin DOMAIN last'.out
                /\ last'.out.at \in {"plot", "_check_mandatory_bindings"}
                /\ (last'.args.graph # None \/ self.edges # None)
                      => last'.out.at = "_check_mandatory_bindings"
                /\ last'.out.calls = <<>>
                /\ insts' = insts]_vars

\* plot() of an igraph graph by a state with the source bound and the
\* destination unset failed in _check_mandatory_bindings, and the node
\* binding is still unset.
C17_Witness ==
    /\ last.op = "plot" /\ last.args.graph = IGraph1
    /\ insts[last.recv].b["source"] = S("s")
    /\ insts[last.recv].b["destination"] = None
    /\ insts[last.recv].b["node"] = None
    /\ ~last.ok /\ last.out.at = "_check_mandatory_bindings"

(***************************************************************************)
(* C18.  plot() is repeatable.  Of two calls of plot() made one after the  *)
(* other on a state s, the second has the outcome (return or failure, the  *)
(* payload and the warnings) that the same call has as the first call on   *)
(* s; so after plot() of an igraph graph by a state with no node binding,  *)
(* plot() of another igraph graph that succeeds as a first call succeeds.  *)
(* The code does not keep this: the first call leaves self._node set on s  *)
(* (C2), and the second call looks for that vertex attribute.              *)
(***************************************************************************)
\* What a call of plot() gives its caller.
Outcome(out) == [k \in (DOMAIN out) \ {"node", "graph"} |-> out[k]]

C18_Repeatable ==
    [][(/\ last.op = "plot" /\ last.first
        /\ last'.op = "plot" /\ last'.recv = last.recv) =>
          Outcome(last'.out) =
             Outcome(PlotResult(last.before,
                                Fields(last.recv).style,
                                Fields(last.recv).complex_encodings,
                                Fields(last.recv).url_params,
                                last'.args, last'.env))]_vars

(***************************************************************************)
(* C19.  Encoding writes are last-write-wins per key.  For every state of  *)
(* a chain, the entry of complex_encodings at a group, a layer and a key   *)
(* is the record of the most recent call of the chain that wrote that      *)
(* group, layer and key, and there is no entry where no call of the chain  *)
(* wrote; a call with for_default=False and for_current=False writes       *)
(* nothing.                                                                *)
(***************************************************************************)
\* The keys the public methods write under.
EncKeys ==
    {MethodKey[m][3] : m \in DOMAIN MethodKey}
    \cup {gt \o "Badge" \o pos \o "Encoding" : gt \in {"point", "edge"}, pos \in Positions}

\* Whether the call c, which made a state, wrote the entry at g, l and k.
Wrote(c, g, l, k) ==
    /\ c.op \in EncodeMethods
    /\ ~(/\ c.args.categorical_mapping = None /\ c.args.palette = None
          /\ c.args.continuous_binning = None /\ ~IsBadgeFeature(c.args.feature))
    /\ g = (IF c.args.graph_type = "point" THEN "node_encodings" ELSE "edge_encodings")
    /\ k = c.args.feature_binding
    /\ IF l = "current" THEN IfNone(c.args.for_current, PyFalse) = PyTrue
       ELSE IfNone(c.args.for_default, PyTrue) = PyTrue

\* The calls of the chain that ends in the state j, the most recent first.
RECURSIVE ChainOf(_)
ChainOf(j) == IF j = 1 THEN <<>> ELSE <<made[j]>> \o ChainOf(made[j].recv)

\* The record of the first call of the sequence that wrote g, l and k.
RECURSIVE LastWrite(_, _, _, _)
LastWrite(calls, g, l, k) ==
    IF calls = <<>> THEN {}
    ELSE IF Wrote(Head(calls), g, l, k)
    THEN {EncodeEncoding(Head(calls).args,
                         EncodeTransform(EncodeFlags(Head(calls).args)).transform)}
    ELSE LastWrite(Tail(calls), g, l, k)

C19_LastWriteWins ==
    /\ \A j \in 1..Len(insts) :
          \A g \in EncGroups, l \in EncLayers :
             /\ DOMAIN Fields(j).complex_encodings[g][l] \subseteq EncKeys
             /\ \A k \in EncKeys :
                   Lookup(Fields(j).complex_encodings[g][l], k)
                      = LastWrite(ChainOf(j), g, l, k)
    /\ (/\ last.op \in EncodeMethods /\ last.ok
        /\ last.args.for_default = PyFalse /\ last.args.for_current = PyFalse)
          => Res.complex_encodings = Recv.complex_encodings

\* encode_point_color(d, categorical_mapping={'a': 'blue', 'b': 'green'}) on
\* the state that encode_point_color(c, categorical_mapping={'a': 'red'})
\* returned: the default layer holds the second record, the current layer
\* none.
C19_Witness ==
    /\ Len(insts) = 3
    /\ made[2].op = "encode_point_color" /\ made[2].args.categorical_mapping = CatMap1
    /\ made[2].args.for_default = PyTrue
    /\ made[3].op = "encode_point_color" /\ made[3].args.categorical_mapping = CatMap2
    /\ made[3].args.for_default = PyTrue /\ made[3].args.for_current = PyFalse
    /\ made[2].args.for_current = PyFalse
    /\ made[3].recv = 2
    /\ Fields(2).complex_encodings.node_encodings.default["pointColorEncoding"].attribute
          = S("c")
    /\ Fields(3).complex_encodings.node_encodings.default["pointColorEncoding"].attribute
          = S("d")
    /\ Fields(3).complex_encodings.node_encodings.current = EmptyDict

(***************************************************************************)
(* C20.  An encode call for a feature that is no badge, given none of      *)
(* categorical_mapping, palette and continuous_binning, returns the state  *)
(* that bind(<graph_type>_<feature>=column) returns on the receiver, field *)
(* by field; its complex_encodings are the receiver's whichever layers the *)
(* flags name, and the decoration arguments have no effect.                *)
(***************************************************************************)
\* The last call is an encode call with nothing to encode by.
IsPlainCall ==
    /\ last.op \in PlainMethods
    /\ last.args.categorical_mapping = None
    /\ last.args.palette = None
    /\ last.args.continuous_binning = None

IsPaletteCall ==
    /\ last.op \in PaletteMethods
    /\ last.args.palette # None
    /\ last.args.categorical_mapping = None

\* The variation the two flags of the last call ask for.
PaletteVariation ==
    IF last.args.as_categorical = PyTrue THEN S("categorical")
    ELSE IF last.args.as_categorical = PyFalse THEN S("continuous")
    ELSE IF last.args.as_continuous = PyFalse THEN S("categorical")
    ELSE S("continuous")

IsStringList(v) == v.t = "list" /\ \A n \in DOMAIN v.d : v.d[n].t = "str"

C21_PaletteResolution ==
    IsPaletteCall =>
       IF ~IsStringList(last.args.palette)
          \/ (last.args.as_categorical = None /\ last.args.as_continuous = None)
       THEN ~last.ok /\ last.err = "ValueError" /\ last.res = 0
       ELSE /\ last.ok
            /\ \E l \in EncLayers : LastFlag(l) = PyTrue
            /\ \A l \in EncLayers :
                  LastFlag(l) = PyTrue =>
                     LET e == Res.complex_encodings[LastGroup][l][last.args.feature_binding]
                     IN  /\ e.colors = last.args.palette
                         /\ e.variation = PaletteVariation
                         /\ e.attribute = last.args.column
                         /\ "mapping" \notin DOMAIN e

\* encode_edge_color(c, palette=['red', '#00F'], as_continuous=False): the
\* variation is inferred from as_continuous alone.
C21_Witness ==
    /\ last.op = "encode_edge_color" /\ last.ok
    /\ last.args.palette = Palette2
    /\ last.args.as_categorical = None /\ last.args.as_continuous = PyFalse
    /\ Res.complex_encodings.edge_encodings.default["edgeColorEncoding"].variation
          = S("categorical")
    /\ Res.complex_encodings.edge_encodings.default["edgeColorEncoding"].colors
          = Palette2

(***************************************************************************)
(* C22.  A badge call given neither categorical_mapping nor                *)
(* continuous_binning returns, and in each layer its flags select it       *)
(* stores, under <graph_type>Badge<Position>Encoding, a record with        *)
(* encodingType badge<Position>, attribute the column and variation        *)
(* 'categorical' that carries no mapping and no colors; every field of the *)
(* returned state but complex_encodings is the receiver's, so no scalar    *)
(* binding changes.                                                        *)
(***************************************************************************)
IsBareBadgeCall ==
    /\ last.op \in BadgeMethods
    /\ last.args.categorical_mapping = None
    /\ last.args.continuous_binning = None

\* 'point' for encode_point_badge, 'edge' for encode_edge_badge.
BadgeGraphType == IF last.op = "encode_point_badge" THEN "point" ELSE "edge"

C22_BadgeDefault ==
    IsBareBadgeCall =>
       /\ last.ok
       /\ last.args.graph_type = BadgeGraphType
       /\ \E pos \in Positions :
             /\ last.args.feature = "badge" \o pos
             /\ last.args.feature_binding = BadgeGraphType \o "Badge" \o pos \o "Encoding"
       /\ \A f \in (DOMAIN Res) \ {"complex_encodings"} : Res[f] = Recv[f]
       /\ \A l \in EncLayers :
             LastFlag(l) = PyTrue =>
                /\ last.args.feature_binding
                       \in DOMAIN Res.complex_encodings[LastGroup][l]
                /\ LET e == Res.complex_encodings[LastGroup][l][last.args.feature_binding]
                   IN  /\ e.graphType = S(BadgeGraphType)
                       /\ e.encodingType = S(last.args.feature)
                       /\ e.attribute = last.args.column
                       /\ e.variation = S("categorical")
                       /\ "mapping" \notin DOMAIN e
                       /\ "colors" \notin DOMAIN e

\* encode_point_badge(c, 'Left') on the state bind(point_color='a') returned.
C22_Witness ==
    /\ last.op = "encode_point_badge" /\ last.ok
    /\ last.args.feature = "badgeLeft"
    /\ last.args.categorical_mapping = None
    /\ last.args.for_default = PyTrue /\ last.args.for_current = PyFalse
    /\ last.args.color = None
    /\ Recv.b["point_color"] = S("a") /\ Res.b = Recv.b
    /\ Res.complex_encodings.node_encodings.default["pointBadgeLeftEncoding"]
          = [graphType |-> S("point"), encodingType |-> S("badgeLeft"),
             attribute |-> S("c"), variation |-> S("categorical")]
    /\ Res.complex_encodings.node_encodings.current = EmptyDict

(***************************************************************************)
(* C23.  A fixed mapping and a binning exclude each other.  Whatever       *)
(* categorical_mapping, palette and continuous_binning the encode calls    *)
(* of a run were given, the icon and badge calls given both a              *)
(* categorical_mapping and a continuous_binning included, no record of     *)
(* complex_encodings carries both mapping.categorical and                  *)
(* mapping.continuous; a record that carries mapping.continuous has        *)
(* variation 'continuous', one that carries mapping.categorical has        *)
(* variation 'categorical'.                                                *)
(***************************************************************************)
Carries(e, kind) == "mapping" \in DOMAIN e /\ kind \in DOMAIN e.mapping

MappingExclusive(e) ==
    /\ ~(Carries(e, "categorical") /\ Carries(e, "continuous"))
    /\ Carries(e, "continuous") => e.variation = S("continuous")
    /\ Carries(e, "categorical") => e.variation = S("categorical")

C23_MappingExclusive ==
    \A j \in 1..Len(insts) :
       \A g \in EncGroups, l \in EncLayers :
          \A k \in DOMAIN Fields(j).complex_encodings[g][l] :
             MappingExclusive(Fields(j).complex_encodings[g][l][k])

\* encode_point_icon given a mapping and a binning, on the state that
\* encode_point_icon given the binning alone returned.
C23_Witness ==
    /\ last.op = "encode_point_icon" /\ last.ok
    /\ last.args.categorical_mapping = CatMap1
    /\ last.args.continuous_binning = Bins2
    /\ last.args.for_default = PyTrue
    /\ "pointIconEncoding" \in DOMAIN Recv.complex_encodings.node_encodings.default
    /\ Carries(Recv.complex_encodings.node_encodings.default["pointIconEncoding"],
               "continuous")
    /\ Carries(Res.complex_encodings.node_encodings.default["pointIconEncoding"],
               "categorical")
    /\ ~Carries(Res.complex_encodings.node_encodings.default["pointIconEncoding"],
                "continuous")

(***************************************************************************)
(* C24.  Ambiguous identity column.  plot() of an igraph or networkx graph *)
(* by a state whose node binding is set fails, and gives no payload,       *)
(* whenever a vertex of the graph carries an attribute named as the node   *)
(* binding is.  The code does not keep this: igraph2pandas reads the       *)
(* identifiers from that attribute, and with networkx 2 the test looks for *)
(* a node of that name.                                                    *)
(***************************************************************************)
\* Whether a vertex of the graph g carries the attribute name.
CarriesAttribute(g, name) ==
    IF g.t = "igraph" THEN Contains(g.vattrs, name)
    ELSE \E k \in DOMAIN g.nodes : ODHas(g.nodes[k].attrs, name)

\* The last call is plot() of a graph object that carries the node binding.
IsOverlapCall ==
    /\ last.op = "plot"
    /\ last.args.graph # None
    /\ last.args.graph.t \in {"igraph", "networkx"}
    /\ last.before.b["node"] # None
    /\ CarriesAttribute(last.args.graph, last.before.b["node"])

C24_AmbiguousIdentity ==
    IsOverlapCall => ~last.ok /\ "dataset" \notin DOMAIN last.out

(***************************************************************************)
(* C25.  The sanitizer runs before every serializer.  In each of the three *)
(* formats, the edges of the payload plot() makes of an edge table are the *)
(* rows of the table whose source and destination are both present, in     *)
(* their order, so no edge of a payload lacks an endpoint.  The code does  *)
(* not keep this for the arrow format, which _make_dataset serializes      *)
(* without a call of _sanitize_dataset.                                    *)
(***************************************************************************)
\* The last call is plot() of an edge table that returned a payload.
IsTablePayload ==
    /\ last.op = "plot" /\ last.ok
    /\ last.args.graph # None
    /\ last.args.graph.t \in {"DataFrame", "Table"}

\* The record rec over the columns cols alone.
Restrict(rec, cols) == [c \in cols |-> rec[c]]

\* The edges of a payload as records over the columns of the edge table.
PayloadEdges(d, source, destination, cols) ==
    CASE d.type = "edgelist" ->
            [r \in DOMAIN d.graph |-> Restrict(d.graph[r], cols)]
      [] d.type = "vgraph" ->
            [r \in DOMAIN d.sources |->
                [c \in cols |->
                    IF c = source THEN d.sources[r]
                    ELSE IF c = destination THEN d.dests[r]
                    ELSE d.edges.rows[r][IndexOf(d.edges.cols, c)]]]
      [] d.type = "arrow" ->
            [r \in DOMAIN d.edges.rows |->
                [c \in cols |-> d.edges.rows[r][IndexOf(d.edges.cols, c)]]]

\* The rows of the edge table that hold both endpoints, as records.
CleanEdges(df, source, destination) ==
    LET Whole(rec) == rec[source] # None /\ rec[destination] # None
    IN  SelectSeq([r \in DOMAIN df.rows |->
                      [c \in {df.cols[k] : k \in DOMAIN df.cols} |->
                          df.rows[r][IndexOf(df.cols, c)]]], Whole)

C25_SanitizerBeforeSerializer ==
    IsTablePayload =>
       LET source == last.before.b["source"]
           destination == last.before.b["destination"]
           df == last.args.graph
           got == PayloadEdges(last.out.dataset, source, destination,
                               {df.cols[k] : k \in DOMAIN df.cols})
       IN  /\ got \o <<>> = CleanEdges(df, source, destination) \o <<>>
           /\ \A r \in DOMAIN got :
                 got[r][source] # None /\ got[r][destination] # None

(***************************************************************************)
(* C26.  The synthesized node table.  When plot() is given no node table,  *)
(* the node table the record-list payload is made of names each            *)
(* identifier once under the effective node-id column (the node binding,   *)
(* or __nodeid__), and its identifiers are the source and destination      *)
(* values of the edge rows that hold both endpoints: no node is there      *)
(* without an edge that was kept.  The code does not keep this: it takes   *)
(* the identifiers from the edge table as given, the dropped rows          *)
(* included.                                                               *)
(***************************************************************************)
\* The last call made a record-list payload of an edge table alone.
IsSynthesizedCall ==
    /\ IsTablePayload
    /\ last.mode = "json"
    /\ last.args.nodes = None /\ last.before.nodes = None

C26_SynthesizedNodes ==
    IsSynthesizedCall =>
       LET source == last.before.b["source"]
           destination == last.before.b["destination"]
           nodeid == OrElse(last.before.b["node"], defaultNodeId)
           labels == last.out.dataset.labels
           clean == CleanEdges(last.args.graph, source, destination)
       IN  /\ \A r \in DOMAIN labels :
                 /\ nodeid \in DOMAIN labels[r]
                 /\ DOMAIN labels[r] \subseteq {nodeid, S("pointTitle")}
           /\ \A r, q \in DOMAIN labels :
                 labels[r][nodeid] = labels[q][nodeid] => r = q
           /\ {labels[r][nodeid] : r \in DOMAIN labels}
                 = {clean[r][source] : r \in DOMAIN clean}
                      \cup {clean[r][destination] : r \in DOMAIN clean}

(***************************************************************************)
(* C27.  The filtered node table of the vgraph payload.  It has one row    *)
(* per identifier that is an endpoint of a kept edge, k rows in all, and   *)
(* the row at position i holds the identifier node_map sends to i; a node  *)
(* of the node table that is an endpoint of no kept edge has no row; an    *)
(* endpoint with no row in the node table has one row of null attributes;  *)
(* the join drops and duplicates no identifier.  The code does not keep    *)
(* this when two rows of the node table name one number, once as a string  *)
(* and once as a number: _sanitize_dataset drops duplicates before it      *)
(* reads the strings as numbers, and the join then gives both rows.        *)
(***************************************************************************)
\* The last call made a vgraph payload of an edge table and a node table.
IsFilteredCall ==
    /\ IsTablePayload
    /\ last.mode = "vgraph"
    /\ last.args.nodes # None

\* The values of the identifier column of the node table given.
GivenIds ==
    LET n == last.args.nodes
    IN  {n.rows[r][IndexOf(n.cols, last.before.b["node"])] : r \in DOMAIN n.rows}

\* The number a value stands for, for a number or a string that reads as one.
AsNumber(v) ==
    IF v.t = "str" /\ v.s \in DOMAIN NumericStrings THEN I(NumericStrings[v.s]) ELSE v

C27_FilteredNodeTable ==
    IsFilteredCall =>
       LET d == last.out.dataset
           ids == Column(d.nodes, d.nodeid)
           endpoints == {d.sources[r] : r \in DOMAIN d.sources}
                           \cup {d.dests[r] : r \in DOMAIN d.dests}
       IN  /\ Len(ids) = Cardinality(endpoints)
           /\ DOMAIN d.node_map = endpoints
           /\ \A i \in DOMAIN ids :
                 ids[i] \in endpoints /\ d.node_map[ids[i]] = i - 1
           /\ \A i \in DOMAIN ids :
                 (\A v \in GivenIds : AsNumber(v) # ids[i]) =>
                    \A c \in 2 .. Len(d.nodes.cols) : d.nodes.rows[i][c] = None

(***************************************************************************)
(* C28.  A binding to a column its table lacks.  In the json and vgraph    *)
(* formats of plot() on tables: when source or destination names a column  *)
(* the edge table lacks, or node a column the node table given lacks, the  *)
(* call fails with no payload; otherwise the payload is made, and a        *)
(* feature bound to a column its table lacks is skipped (its wire-level    *)
(* name is no column of the records and no entry of the encodings) with a  *)
(* warning, while the features bound to columns their tables hold are      *)
(* applied.                                                                *)
(***************************************************************************)
\* The last call is plot() on tables in the json or vgraph format, past
\* the test of the mandatory bindings.
IsSchemaCall ==
    /\ last.op = "plot"
    /\ last.mode \in {"json", "vgraph"}
    /\ last.args.graph.t = "DataFrame"
    /\ CheckMandatoryBindings(last.before, last.args.nodes # None)

\* The columns of the node table the bindings are resolved on: those of
\* the table given, or the node-id column of the synthesized one.
SchemaNodeCols ==
    IF last.args.nodes = None
    THEN <<OrElse(last.before.b["node"], defaultNodeId)>>
    ELSE last.args.nodes.cols

\* A structural binding names a column its table lacks.
StructuralMissing ==
    \/ ~Contains(last.args.graph.cols, last.before.b["source"])
    \/ ~Contains(last.args.graph.cols, last.before.b["destination"])
    \/ last.args.nodes # None
          /\ ~Contains(last.args.nodes.cols, last.before.b["node"])

\* The records of the json payload made of a table, none for vgraph.
WireRecords(d, table) ==
    IF d.type # "edgelist" THEN <<>>
    ELSE IF table = "edges" THEN d.graph ELSE d.labels

\* The payload d has the wire-level name w for the table: as a key of
\* every record (json) or as an entry of the encodings (vgraph).
HasWire(d, table, w) ==
    IF d.type = "edgelist"
    THEN \A r \in DOMAIN WireRecords(d, table) : S(w) \in DOMAIN WireRecords(d, table)[r]
    ELSE /\ w \in DOMAIN d.encodings[table]
         /\ Len(d.encodings[table][w].attributes) = 1

LacksWire(d, table, w) ==
    IF d.type = "edgelist"
    THEN \A r \in DOMAIN WireRecords(d, table) : S(w) \notin DOMAIN WireRecords(d, table)[r]
    ELSE w \notin DOMAIN d.encodings[table]

\* The features of wires, resolved on a table of the columns cols, are in
\* the payload as the claim says, for the bound columns Covered admits.
Resolved(d, table, wires, cols, Covered(_, _)) ==
    \A k \in DOMAIN wires :
       LET c == last.before.b[wires[k][2]]
       IN  Truthy(c) =>
              IF Contains(cols, c)
              THEN HasWire(d, table, wires[k][1])
              ELSE Covered(S(wires[k][1]), c) =>
                      /\ LacksWire(d, table, wires[k][1])
                      /\ "Attribute does not exist" \in last.out.warnings

SchemaMismatch(CoveredEdge(_, _), CoveredPoint(_, _)) ==
    IsSchemaCall =>
       IF StructuralMissing
       THEN ~last.ok /\ "dataset" \notin DOMAIN last.out
       ELSE /\ last.ok
            /\ Resolved(last.out.dataset, "edges",
                        EdgeWire, last.args.graph.cols, CoveredEdge)
            /\ Resolved(last.out.dataset, "nodes", PointWire, SchemaNodeCols,
                        CoveredPoint)

PlotWithApi(version) ==
    PlotResult(last.before, Fields(last.recv).style,
               encObjs[insts[last.recv].complex_encodings],
               Fields(last.recv).url_params, last.args,
               [last.env EXCEPT !.api_version = version])

\* The outcome of the last call, or of its twin in the other format.
JsonTwin == IF last.mode = "json" THEN last.out ELSE PlotWithApi(1)
VgraphTwin == IF last.mode = "vgraph" THEN last.out ELSE PlotWithApi(2)

\* Every record holds the key w, and holds under it what it holds under c.
InjectedCopy(recs, w, c) ==
    \A r \in DOMAIN recs :
       /\ S(w) \in DOMAIN recs[r] /\ c \in DOMAIN recs[r]
       /\ recs[r][S(w)] = recs[r][c]

\* The features of wires agree in the records recs and the encodings enc,
\* for the wire-level names the table given has no column of, and the
\* bound columns Covered admits.
SameResolution(recs, enc, wires, cols, Covered(_, _)) ==
    \A k \in DOMAIN wires :
       LET w == wires[k][1]
           c == last.before.b[wires[k][2]]
       IN  (~Contains(cols, S(w)) /\ (Truthy(c) => Covered(S(w), c))) =>
              /\ (\E r \in DOMAIN recs : S(w) \in DOMAIN recs[r]) <=> (w \in DOMAIN enc)
              /\ w \in DOMAIN enc =>
                    /\ Len(enc[w].attributes) = 1
                    /\ InjectedCopy(recs, w, enc[w].attributes[1])

SameInBothFormats(CoveredEdge(_, _), CoveredPoint(_, _)) ==
    IsSchemaCall =>
       /\ JsonTwin.ok = VgraphTwin.ok
       /\ JsonTwin.ok =>
             /\ SameResolution(JsonTwin.dataset.graph, VgraphTwin.dataset.encodings.edges,
                               EdgeWire, last.args.graph.cols, CoveredEdge)
             /\ SameResolution(JsonTwin.dataset.labels, VgraphTwin.dataset.encodings.nodes,
                               PointWire, SchemaNodeCols, CoveredPoint)
             /\ ~Truthy(last.before.b["point_title"]) =>
                   /\ "pointTitle" \in DOMAIN VgraphTwin.dataset.encodings.nodes
                   /\ VgraphTwin.dataset.encodings.nodes["pointTitle"].attributes
                         = <<OrElse(last.before.b["node"], defaultNodeId)>>
                   /\ JsonTwin.dataset.labels # <<>>
                   /\ InjectedCopy(JsonTwin.dataset.labels, "pointTitle",
                                   OrElse(last.before.b["node"], defaultNodeId))

IsUnknownVersionCall ==
    last.op = "plot" /\ last.env.api_version \notin {1, 2, 3}

C30_UnknownFormat ==
    IsUnknownVersionCall =>
       /\ ~last.ok
       /\ last.err = "ValueError"
       /\ "dataset" \notin DOMAIN last.out
       /\ last.out.calls = <<>>

=============================================================================
